---- MODULE Spec2Model ----
(***************************************************************************)
(* Model of the match-evaluation engine of candidate-deep-research:        *)
(* src/agents/match-evaluation/main.py, calculate_match_score and the      *)
(* helpers it calls.                                                       *)
(*                                                                         *)
(* Representation.                                                         *)
(*  - A Python dict is a TLA+ record; a key that is absent from the dict   *)
(*    is absent from the record's DOMAIN.  A validated pydantic object is  *)
(*    a record too: a field whose value is None is absent, a field with a  *)
(*    non-None default is always present.                                  *)
(*  - A short text (skill, industry, title) is a TLA+ string.  Lower,      *)
(*    Strip, Contains and StrRank tabulate str.lower, str.strip, the `in`  *)
(*    operator and the string order on the texts the model draws from.     *)
(*  - A text that is split into words (reasons, evidence quotes, the       *)
(*    justification) is the sequence of its whitespace-separated words.    *)
(*  - float values are integer-valued; FloatStr is their str().            *)
(***************************************************************************)
EXTENDS Integers, Sequences, FiniteSets, TLC

\* ------------------------------------------------------------------ bounds
MaxSkills == 2      \* longest must_have_hard_skills list drawn
MaxYears == 2       \* largest years_min / years_experience drawn
MaxSalary == 2      \* largest salary figure drawn
MaxDetails == 2     \* longest company_details list drawn
LongWords == 90     \* number of words of the long industry text
MaxReasons == 3     \* longest top_reasons list of a direct composer call
MaxMissing == 3     \* longest missing_data list of a direct composer call
MaxSkillList == 3   \* longest must-have list of a direct skills-scorer call
MaxTechs == 3       \* longest list of a direct normalizer call

\* ----------------------------------------------------------------- helpers
Has(d, k) == k \in DOMAIN d

Get(d, k, default) == IF k \in DOMAIN d THEN d[k] ELSE default

Range(s) == {s[i] : i \in 1..Len(s)}

Min2(a, b) == IF a < b THEN a ELSE b

Max2(a, b) == IF a > b THEN a ELSE b

Take(s, n) == SubSeq(s, 1, Min2(n, Len(s)))

SeqsUpTo(S, n) == UNION {[1..k -> S] : k \in 0..n}

\* ------------------------------------------------------------------- texts
LongIndustry == "long-industry"

\* str.lower on the model's texts
Lower(s) ==
    CASE s = "Python " -> "python "
      [] s = "Python" -> "python"
      [] s = "PostgreSQL" -> "postgresql"
      [] s = "Docker" -> "docker"
      [] s = "JavaScript" -> "javascript"
      [] s = "Node.js" -> "node.js"
      [] s = "FinTech" -> "fintech"
      [] s = "FINTECH" -> "fintech"
      [] s = "Payments" -> "payments"
      [] s = "Senior" -> "senior"
      [] s = "Senior Developer" -> "senior developer"
      [] s = "Intern" -> "intern"
      [] s = "Remote" -> "remote"
      [] OTHER -> s

\* str.strip on the model's texts
Strip(s) ==
    CASE s = "Python " -> "Python"
      [] s = "python " -> "python"
      [] s = " " -> ""
      [] OTHER -> s

\* needle in hay (substring test) on the model's texts
Contains(hay, needle) ==
    \/ needle = ""
    \/ needle = hay
    \/ <<hay, needle>> \in {<<"senior developer", "senior">>,
                            <<"senior developer", "developer">>,
                            <<"fintech", "fin">>}

\* position of a text in the order of Python's str comparison
StrRank(s) ==
    CASE s = "docker" -> 1
      [] s = "go" -> 2
      [] s = "js" -> 3
      [] s = "postgres" -> 4
      [] s = "python" -> 5
      [] s = "rust" -> 6
      [] OTHER -> 7

\* str.split(): the whitespace-separated words of a text
Words(s) ==
    IF s = "" \/ s = " " THEN <<>>
    ELSE IF s = LongIndustry THEN [i \in 1..LongWords |-> "w" \o ToString(i)]
    ELSE IF s = "Senior Developer" THEN <<"Senior", "Developer">>
    ELSE IF s = "senior developer" THEN <<"senior", "developer">>
    ELSE <<Strip(s)>>

\* str() of an integer-valued float
FloatStr(n) == ToString(n) \o ".0"

\* text t followed, without a space, by the characters p
Suffix(t, p) == IF t = <<>> THEN <<p>> ELSE [t EXCEPT ![Len(t)] = @ \o p]

\* (sep + " ").join(parts), every part a sequence of words
RECURSIVE Join(_, _)
Join(parts, sep) ==
    IF parts = <<>> THEN <<>>
    ELSE IF Len(parts) = 1 THEN parts[1]
    ELSE Suffix(parts[1], sep) \o Join(Tail(parts), sep)

\* sorted(S) for a set of texts
RECURSIVE SortedSeq(_)
SortedSeq(S) ==
    IF S = {} THEN <<>>
    ELSE LET m == CHOOSE x \in S : \A y \in S : StrRank(x) <= StrRank(y)
         IN <<m>> \o SortedSeq(S \ {m})

\* ------------------------------------------------------------- normalizer
\* xs without repeated elements, first occurrences kept (dict.fromkeys)
RECURSIVE FromKeys(_, _)
FromKeys(xs, seen) ==
    IF xs = <<>> THEN <<>>
    ELSE IF Head(xs) \in seen THEN FromKeys(Tail(xs), seen)
         ELSE <<Head(xs)>> \o FromKeys(Tail(xs), seen \cup {Head(xs)})

\* [x.strip().lower() for x in xs if x and x.strip()]
RECURSIVE StripLowerNonEmpty(_)
StripLowerNonEmpty(xs) ==
    IF xs = <<>> THEN <<>>
    ELSE IF Head(xs) # "" /\ Strip(Head(xs)) # ""
         THEN <<Lower(Strip(Head(xs)))>> \o StripLowerNonEmpty(Tail(xs))
         ELSE StripLowerNonEmpty(Tail(xs))

dedupe(xs) == IF xs = <<>> THEN <<>> ELSE FromKeys(StripLowerNonEmpty(xs), {})

normalization_map(t) ==
    CASE t = "postgresql" -> "postgres"
      [] t = "javascript" -> "js"
      [] t = "typescript" -> "ts"
      [] t = "node.js" -> "nodejs"
      [] t = "react.js" -> "react"
      [] t = "vue.js" -> "vue"
      [] OTHER -> t

\* variant of normalize_tech: duplicates are kept
normalize_tech_keep_all(techs) ==
    StripLowerNonEmpty([i \in 1..Len(techs) |-> normalization_map(Strip(Lower(techs[i])))])

normalize_tech(techs) ==
    dedupe([i \in 1..Len(techs) |-> normalization_map(Strip(Lower(techs[i])))])

\* ------------------------------------------------------------- validation
None == [none |-> TRUE]

Truthy(v) == DOMAIN v # {}

SalaryRangeValidate(d) == d @@ [period |-> "year"]

JobSpecDefaults ==
    [seniority |-> "unspecified", tech_stack |-> <<>>, must_have_hard_skills |-> <<>>,
     nice_to_have_hard_skills |-> <<>>, domain_knowledge |-> <<>>,
     culture_requirements |-> <<>>]

\* variant of JobSpecErrors: role_title declared optional
JobSpecErrorsNone(d) == <<>>

\* the errors of JobSpec.model_validate(d): one entry per violated field
JobSpecErrors(d) ==
    IF Has(d, "role_title") THEN <<>>
    ELSE <<[type |-> "missing", loc |-> <<"role_title">>]>>

JobSpecValidate(d) ==
    LET sal == IF Has(d, "salary_range")
               THEN [salary_range |-> SalaryRangeValidate(d.salary_range)]
               ELSE [x \in {} |-> x]
    IN sal @@ d @@ JobSpecDefaults

CandidateDefaults == [years_experience |-> 0, skills |-> <<>>, industry_experience |-> <<>>]

CandidateErrors(d) ==
    IF Has(d, "name") THEN <<>>
    ELSE <<[type |-> "missing", loc |-> <<"name">>]>>

CandidateValidate(d) ==
    LET sal == IF Has(d, "salary_expectation")
               THEN [salary_expectation |-> SalaryRangeValidate(d.salary_expectation)]
               ELSE [x \in {} |-> x]
    IN sal @@ d @@ CandidateDefaults

\* variant of InPercentRange: the upper limit le=100 is left out
InPercentRangeNoUpper(v) == 0 <= v

\* Field(ge=0, le=100), the constraint on CultureFit.score, on the five SubScores
\* and on ScoreCard.overall_score
InPercentRange(v) == 0 <= v /\ v <= 100

\* CultureFit: score is required and is an integer with 0 <= score <= 100
CultureFitErrors(cf) ==
    IF ~Has(cf, "score") THEN <<[type |-> "missing", loc |-> <<"culture_fit", "score">>]>>
    ELSE IF ~InPercentRange(cf.score)
         THEN <<[type |-> "out_of_range", loc |-> <<"culture_fit", "score">>]>>
    ELSE <<>>

CompanyErrors(d) ==
    (IF Has(d, "name") THEN <<>> ELSE <<[type |-> "missing", loc |-> <<"name">>]>>)
    \o (IF Has(d, "culture_fit") THEN CultureFitErrors(d.culture_fit) ELSE <<>>)

CompanyValidate(d) ==
    LET cf == IF Has(d, "culture_fit")
              THEN [culture_fit |-> d.culture_fit @@ [notes |-> <<>>]]
              ELSE [x \in {} |-> x]
    IN cf @@ d @@ [culture_values |-> <<>>]

\* variant of SelectCompany: the last element of company_details is taken
SelectCompanyLast(md) ==
    IF Has(md, "company_profile") /\ Truthy(md.company_profile)
    THEN md.company_profile
    ELSE IF Has(md, "company_details") /\ Len(md.company_details) > 0
         THEN md.company_details[Len(md.company_details)]
         ELSE None

\* the raw record that calculate_match_score hands to CompanyProfile, or None
SelectCompany(md) ==
    IF Has(md, "company_profile") /\ Truthy(md.company_profile)
    THEN md.company_profile
    ELSE IF Has(md, "company_details") /\ Len(md.company_details) > 0
         THEN md.company_details[1]
         ELSE None

ValidationError(errors) == [exc |-> "ValidationError", details |-> errors]

KeyError(key) == [exc |-> "KeyError", details |-> "'" \o key \o "'"]

NoException == [exc |-> "none"]

\* the exception that the validation block of calculate_match_score raises, if any
ValidationRaises(md) ==
    IF ~Has(md, "job_spec") THEN KeyError("job_spec")
    ELSE IF JobSpecErrors(md.job_spec) # <<>>
         THEN ValidationError(JobSpecErrors(md.job_spec))
    ELSE IF ~Has(md, "candidate_profile") THEN KeyError("candidate_profile")
    ELSE IF CandidateErrors(md.candidate_profile) # <<>>
         THEN ValidationError(CandidateErrors(md.candidate_profile))
    ELSE IF SelectCompany(md) # None /\ CompanyErrors(SelectCompany(md)) # <<>>
         THEN ValidationError(CompanyErrors(SelectCompany(md)))
    ELSE NoException

\* ---------------------------------------------------------------- scorers
Evidence(source, quote, field) == [source |-> source, quote |-> quote, field |-> field]

\* the words of ", ".join(sorted(S)) for a set S of texts
JoinSorted(S) ==
    LET names == SortedSeq(S)
    IN Join([i \in 1..Len(names) |-> Words(names[i])], ",")

\* variant of SkillsScoreOf: round-half-up instead of int()
SkillsScoreOfRounded(m, M, n, N, t, T) ==
    LET M1 == Max2(M, 1)
        N1 == Max2(N, 1)
        T1 == Max2(T, 1)
    IN (2 * (70 * m * N1 * T1 + 15 * n * M1 * T1 + 15 * t * M1 * N1) + M1 * N1 * T1)
           \div (2 * M1 * N1 * T1)

\* variant of SkillsScoreOf: the weights are 50, 25 and 25
SkillsScoreOfEven(m, M, n, N, t, T) ==
    LET M1 == Max2(M, 1)
        N1 == Max2(N, 1)
        T1 == Max2(T, 1)
    IN (50 * m * N1 * T1 + 25 * n * M1 * T1 + 25 * t * M1 * N1) \div (M1 * N1 * T1)

\* variant of SkillsScoreOf: the must-have coverage weighs 60
SkillsScoreOfSixty(m, M, n, N, t, T) ==
    LET M1 == Max2(M, 1)
        N1 == Max2(N, 1)
        T1 == Max2(T, 1)
    IN (60 * m * N1 * T1 + 15 * n * M1 * T1 + 15 * t * M1 * N1) \div (M1 * N1 * T1)

\* int(must_have_coverage * 70 + nice_to_have_coverage * 15 + tech_coverage * 15).
\* The three coverages are the fractions m/M, n/N and t/T (0 for an empty list);
\* the exact floor below equals the float computation for lists of up to 6 entries.
SkillsScoreOf(m, M, n, N, t, T) ==
    LET M1 == Max2(M, 1)
        N1 == Max2(N, 1)
        T1 == Max2(T, 1)
    IN (70 * m * N1 * T1 + 15 * n * M1 * T1 + 15 * t * M1 * N1) \div (M1 * N1 * T1)

\* _calculate_skills_score: the score and what it appends to evidence and reasons
SkillsOutcome(job, cand) ==
    LET candidate_skills == normalize_tech(cand.skills)
        job_tech_stack == normalize_tech(job.tech_stack)
        must_have == normalize_tech(job.must_have_hard_skills)
        nice_to_have == normalize_tech(job.nice_to_have_hard_skills)
        must_have_matches == Range(must_have) \cap Range(candidate_skills)
        nice_to_have_matches == Range(nice_to_have) \cap Range(candidate_skills)
        tech_matches == Range(job_tech_stack) \cap Range(candidate_skills)
        missing_skills == Range(must_have) \ must_have_matches
        matched == must_have_matches # {}
        incomplete == Len(must_have) > Cardinality(must_have_matches)
    IN [score |-> SkillsScoreOf(Cardinality(must_have_matches), Len(must_have),
                                Cardinality(nice_to_have_matches), Len(nice_to_have),
                                Cardinality(tech_matches), Len(job_tech_stack)),
        evidence |-> IF matched
                     THEN <<Evidence("candidate",
                                     <<"Skills:">> \o JoinSorted(must_have_matches),
                                     "skills")>>
                     ELSE <<>>,
        reasons |-> (IF matched
                     THEN << <<"matches",
                               ToString(Cardinality(must_have_matches)) \o "/"
                                   \o ToString(Len(must_have)),
                               "must-have", "skills">> >>
                     ELSE <<>>)
                    \o (IF incomplete
                        THEN << <<"missing", ToString(Cardinality(missing_skills)),
                                  "must-have", "skills:">>
                                \o JoinSorted(missing_skills) >>
                        ELSE <<>>),
        missing |-> <<>>]

Clamp(score) == Max2(0, Min2(100, score))

\* variant of seniority_keywords: the generic job titles are not keywords of mid
seniority_keywords_strict ==
    [junior |-> <<"junior", "graduate", "entry">>,
     mid |-> <<"mid", "intermediate">>,
     senior |-> <<"senior", "sr", "lead">>,
     lead |-> <<"lead", "principal", "staff", "architect">>]

seniority_keywords ==
    [junior |-> <<"junior", "graduate", "entry">>,
     mid |-> <<"mid", "intermediate", "engineer", "developer">>,
     senior |-> <<"senior", "sr", "lead">>,
     lead |-> <<"lead", "principal", "staff", "architect">>]

\* variant of MeetsMinimum: exactly years_min years do not meet the requirement
MeetsMinimumStrict(candidate_years, years_min) == candidate_years > years_min

\* candidate_years >= years_min
MeetsMinimum(candidate_years, years_min) == candidate_years >= years_min

\* variant of ExperienceOutcome: falling short of years_min costs 60
ExperienceOutcomeHarsh(job, cand) ==
    LET has_min == Has(job, "experience_requirements")
                   /\ Has(job.experience_requirements, "years_min")
        years_min == job.experience_requirements.years_min
        candidate_years == cand.years_experience
        meets == has_min /\ MeetsMinimum(candidate_years, years_min)
        below == has_min /\ ~MeetsMinimum(candidate_years, years_min)
        checks_seniority == job.seniority # "" /\ job.seniority # "unspecified"
        job_seniority == Lower(job.seniority)
        candidate_title == Lower(Get(cand, "current_title", ""))
        known == checks_seniority /\ job_seniority \in DOMAIN seniority_keywords
        aligned == known /\ \E i \in 1..Len(seniority_keywords[job_seniority]) :
                                Contains(candidate_title, seniority_keywords[job_seniority][i])
        years_delta == IF meets THEN 30 ELSE IF below THEN 0 - 60 ELSE 0
        seniority_delta == IF aligned THEN 20 ELSE IF known THEN 0 - 10 ELSE 0
    IN [raw |-> 50 + years_delta + seniority_delta,
        score |-> Clamp(50 + years_delta + seniority_delta),
        evidence |-> IF meets
                     THEN <<Evidence("candidate",
                                     <<FloatStr(candidate_years), "years", "experience">>,
                                     "experience")>>
                     ELSE <<>>,
        reasons |-> (IF meets
                     THEN << <<FloatStr(candidate_years), "years", "meets",
                               FloatStr(years_min) \o "+", "requirement">> >>
                     ELSE IF below
                     THEN << <<FloatStr(candidate_years), "years", "below",
                               FloatStr(years_min) \o "+", "requirement">> >>
                     ELSE <<>>)
                    \o (IF aligned
                        THEN << <<"seniority", "aligned:">> \o Words(job_seniority) >>
                        ELSE IF known
                        THEN << <<"seniority", "mismatch:", "expects">>
                                \o Words(job_seniority) >>
                        ELSE <<>>),
        missing |-> IF has_min THEN <<>> ELSE <<"experience_requirements.years_min">>]

\* _calculate_experience_score
ExperienceOutcome(job, cand) ==
    LET has_min == Has(job, "experience_requirements")
                   /\ Has(job.experience_requirements, "years_min")
        years_min == job.experience_requirements.years_min
        candidate_years == cand.years_experience
        meets == has_min /\ MeetsMinimum(candidate_years, years_min)
        below == has_min /\ ~MeetsMinimum(candidate_years, years_min)
        checks_seniority == job.seniority # "" /\ job.seniority # "unspecified"
        job_seniority == Lower(job.seniority)
        candidate_title == Lower(Get(cand, "current_title", ""))
        known == checks_seniority /\ job_seniority \in DOMAIN seniority_keywords
        aligned == known /\ \E i \in 1..Len(seniority_keywords[job_seniority]) :
                                Contains(candidate_title, seniority_keywords[job_seniority][i])
        years_delta == IF meets THEN 30 ELSE IF below THEN 0 - 20 ELSE 0
        seniority_delta == IF aligned THEN 20 ELSE IF known THEN 0 - 10 ELSE 0
    IN [raw |-> 50 + years_delta + seniority_delta,
        score |-> Clamp(50 + years_delta + seniority_delta),
        evidence |-> IF meets
                     THEN <<Evidence("candidate",
                                     <<FloatStr(candidate_years), "years", "experience">>,
                                     "experience")>>
                     ELSE <<>>,
        reasons |-> (IF meets
                     THEN << <<FloatStr(candidate_years), "years", "meets",
                               FloatStr(years_min) \o "+", "requirement">> >>
                     ELSE IF below
                     THEN << <<FloatStr(candidate_years), "years", "below",
                               FloatStr(years_min) \o "+", "requirement">> >>
                     ELSE <<>>)
                    \o (IF aligned
                        THEN << <<"seniority", "aligned:">> \o Words(job_seniority) >>
                        ELSE IF known
                        THEN << <<"seniority", "mismatch:", "expects">>
                                \o Words(job_seniority) >>
                        ELSE <<>>),
        missing |-> IF has_min THEN <<>> ELSE <<"experience_requirements.years_min">>]

\* variant of CultureOutcome: the fallback does not record the missing culture data
CultureOutcomeSilent(job, cand, comp) ==
    IF comp # None /\ Has(comp, "culture_fit")
    THEN [score |-> comp.culture_fit.score,
          weight |-> 20,
          evidence |-> <<Evidence("company",
                                  <<"Culture", "fit", "score:",
                                    ToString(comp.culture_fit.score)>>,
                                  "culture")>>,
          reasons |-> << <<"culture", "fit", "assessed:",
                           ToString(comp.culture_fit.score) \o "/100">> >>,
          missing |-> <<>>]
    ELSE [score |-> 60,
          weight |-> 10,
          evidence |-> <<>>,
          reasons |-> << <<"limited", "culture", "data", "available">> >>,
          missing |-> <<>>]

\* variant of CultureOutcome: a culture_fit score of 0 counts as no culture_fit
CultureOutcomeFalsyZero(job, cand, comp) ==
    IF comp # None /\ Has(comp, "culture_fit") /\ comp.culture_fit.score # 0
    THEN [score |-> comp.culture_fit.score,
          weight |-> 20,
          evidence |-> <<Evidence("company",
                                  <<"Culture", "fit", "score:",
                                    ToString(comp.culture_fit.score)>>,
                                  "culture")>>,
          reasons |-> << <<"culture", "fit", "assessed:",
                           ToString(comp.culture_fit.score) \o "/100">> >>,
          missing |-> <<>>]
    ELSE IF comp # None /\ comp.culture_values # <<>>
    THEN [score |-> 60,
          weight |-> 10,
          evidence |-> <<Evidence("company",
                                  <<"Values:">>
                                  \o Join([i \in 1..Min2(3, Len(comp.culture_values)) |->
                                              Words(comp.culture_values[i])], ","),
                                  "culture")>>,
          reasons |-> << <<"culture", "estimated", "from", "company", "values">> >>,
          missing |-> <<>>]
    ELSE [score |-> 60,
          weight |-> 10,
          evidence |-> <<>>,
          reasons |-> << <<"limited", "culture", "data", "available">> >>,
          missing |-> <<"company_profile.culture_fit">>]

\* _calculate_culture_score: the score, the weight used, and what it appends
CultureOutcome(job, cand, comp) ==
    IF comp # None /\ Has(comp, "culture_fit")
    THEN [score |-> comp.culture_fit.score,
          weight |-> 20,
          evidence |-> <<Evidence("company",
                                  <<"Culture", "fit", "score:",
                                    ToString(comp.culture_fit.score)>>,
                                  "culture")>>,
          reasons |-> << <<"culture", "fit", "assessed:",
                           ToString(comp.culture_fit.score) \o "/100">> >>,
          missing |-> <<>>]
    ELSE IF comp # None /\ comp.culture_values # <<>>
    THEN [score |-> 60,
          weight |-> 10,
          evidence |-> <<Evidence("company",
                                  <<"Values:">>
                                  \o Join([i \in 1..Min2(3, Len(comp.culture_values)) |->
                                              Words(comp.culture_values[i])], ","),
                                  "culture")>>,
          reasons |-> << <<"culture", "estimated", "from", "company", "values">> >>,
          missing |-> <<>>]
    ELSE [score |-> 60,
          weight |-> 10,
          evidence |-> <<>>,
          reasons |-> << <<"limited", "culture", "data", "available">> >>,
          missing |-> <<"company_profile.culture_fit">>]

\* variant of DomainOutcome: a related industry is looked for after an exact match too
DomainOutcomeBoth(job, cand) ==
    LET inds == cand.industry_experience
        candidate_industries == [i \in 1..Len(inds) |-> Lower(inds[i])]
        checks == Has(job, "industry") /\ job.industry # "" /\ inds # <<>>
        job_industry == Lower(job.industry)
        exact == checks /\ job_industry \in Range(candidate_industries)
        related == checks
                   /\ \E i \in 1..Len(inds) :
                         \/ Contains(candidate_industries[i], job_industry)
                         \/ Contains(job_industry, candidate_industries[i])
        dk == job.domain_knowledge
        overlap == dk # <<>> /\ inds # <<>>
                   /\ {Lower(dk[i]) : i \in 1..Len(dk)} \cap Range(candidate_industries) # {}
        raw == 50 + (IF exact THEN 40 ELSE 0) + (IF related THEN 20 ELSE 0)
                  + (IF overlap THEN 10 ELSE 0)
    IN [raw |-> raw,
        score |-> Clamp(raw),
        evidence |-> IF exact
                     THEN <<Evidence("candidate", <<"Industry:">> \o Words(job.industry),
                                     "domain")>>
                     ELSE <<>>,
        reasons |-> (IF exact
                     THEN << <<"industry", "experience:">> \o Words(job.industry) >>
                     ELSE IF related
                     THEN << <<"related", "industry", "experience">> >>
                     ELSE <<>>)
                    \o (IF overlap THEN << <<"domain", "knowledge", "overlap">> >> ELSE <<>>),
        missing |-> <<>>]

\* _calculate_domain_score
DomainOutcome(job, cand) ==
    LET inds == cand.industry_experience
        candidate_industries == [i \in 1..Len(inds) |-> Lower(inds[i])]
        checks == Has(job, "industry") /\ job.industry # "" /\ inds # <<>>
        job_industry == Lower(job.industry)
        exact == checks /\ job_industry \in Range(candidate_industries)
        related == checks /\ ~exact
                   /\ \E i \in 1..Len(inds) :
                         \/ Contains(candidate_industries[i], job_industry)
                         \/ Contains(job_industry, candidate_industries[i])
        dk == job.domain_knowledge
        overlap == dk # <<>> /\ inds # <<>>
                   /\ {Lower(dk[i]) : i \in 1..Len(dk)} \cap Range(candidate_industries) # {}
        raw == 50 + (IF exact THEN 40 ELSE IF related THEN 20 ELSE 0)
                  + (IF overlap THEN 10 ELSE 0)
    IN [raw |-> raw,
        score |-> Clamp(raw),
        evidence |-> IF exact
                     THEN <<Evidence("candidate", <<"Industry:">> \o Words(job.industry),
                                     "domain")>>
                     ELSE <<>>,
        reasons |-> (IF exact
                     THEN << <<"industry", "experience:">> \o Words(job.industry) >>
                     ELSE IF related
                     THEN << <<"related", "industry", "experience">> >>
                     ELSE <<>>)
                    \o (IF overlap THEN << <<"domain", "knowledge", "overlap">> >> ELSE <<>>),
        missing |-> <<>>]

\* variant of LogisticsOutcome: the hybrid test comes before the test for remote
LogisticsOutcomeHybridFirst(job, cand) ==
    LET checks_location == Has(job, "location") /\ Has(cand, "locations")
        job_type == Lower(Get(job.location, "type", ""))
        candidate_type == Lower(Get(cand.locations, "type", ""))
        partial == checks_location /\ job_type # candidate_type
                   /\ job_type = "hybrid" /\ candidate_type \in {"onsite", "remote"}
        compatible == checks_location /\ ~partial
                      /\ (job_type = candidate_type \/ candidate_type = "remote")
        mismatch == checks_location /\ ~compatible /\ ~partial
        both_salaries == Has(job, "salary_range") /\ Has(cand, "salary_expectation")
        both_figures == both_salaries /\ Has(job.salary_range, "max")
                        /\ Has(cand.salary_expectation, "min")
        aligned == both_figures /\ job.salary_range.max >= cand.salary_expectation.min
        misaligned == both_figures /\ ~aligned
        raw == 70 + (IF compatible THEN 20 ELSE IF partial THEN 10
                     ELSE IF mismatch THEN 0 - 15 ELSE 0)
                  + (IF aligned THEN 10 ELSE IF misaligned THEN 0 - 20 ELSE 0)
    IN [raw |-> raw,
        score |-> Clamp(raw),
        evidence |-> <<>>,
        reasons |-> (IF compatible
                     THEN << <<"location", "type", "compatible:">> \o Words(job_type) >>
                     ELSE IF partial
                     THEN << <<"location", "type", "partially", "compatible">> >>
                     ELSE IF mismatch
                     THEN << <<"location", "type", "mismatch:", "needs">>
                             \o Words(job_type) >>
                     ELSE <<>>)
                    \o (IF aligned THEN << <<"salary", "expectations", "aligned">> >>
                        ELSE IF misaligned
                        THEN << <<"salary", "expectations", "misaligned">> >>
                        ELSE <<>>),
        missing |-> IF both_figures THEN <<>>
                    ELSE IF both_salaries THEN <<"complete_salary_information">>
                    ELSE <<"salary_range_or_expectation">>]

\* _calculate_logistics_score
LogisticsOutcome(job, cand) ==
    LET checks_location == Has(job, "location") /\ Has(cand, "locations")
        job_type == Lower(Get(job.location, "type", ""))
        candidate_type == Lower(Get(cand.locations, "type", ""))
        compatible == checks_location
                      /\ (job_type = candidate_type \/ candidate_type = "remote")
        partial == checks_location /\ ~compatible
                   /\ job_type = "hybrid" /\ candidate_type \in {"onsite", "remote"}
        mismatch == checks_location /\ ~compatible /\ ~partial
        both_salaries == Has(job, "salary_range") /\ Has(cand, "salary_expectation")
        both_figures == both_salaries /\ Has(job.salary_range, "max")
                        /\ Has(cand.salary_expectation, "min")
        aligned == both_figures /\ job.salary_range.max >= cand.salary_expectation.min
        misaligned == both_figures /\ ~aligned
        raw == 70 + (IF compatible THEN 20 ELSE IF partial THEN 10
                     ELSE IF mismatch THEN 0 - 15 ELSE 0)
                  + (IF aligned THEN 10 ELSE IF misaligned THEN 0 - 20 ELSE 0)
    IN [raw |-> raw,
        score |-> Clamp(raw),
        evidence |-> <<>>,
        reasons |-> (IF compatible
                     THEN << <<"location", "type", "compatible:">> \o Words(job_type) >>
                     ELSE IF partial
                     THEN << <<"location", "type", "partially", "compatible">> >>
                     ELSE IF mismatch
                     THEN << <<"location", "type", "mismatch:", "needs">>
                             \o Words(job_type) >>
                     ELSE <<>>)
                    \o (IF aligned THEN << <<"salary", "expectations", "aligned">> >>
                        ELSE IF misaligned
                        THEN << <<"salary", "expectations", "misaligned">> >>
                        ELSE <<>>),
        missing |-> IF both_figures THEN <<>>
                    ELSE IF both_salaries THEN <<"complete_salary_information">>
                    ELSE <<"salary_range_or_expectation">>]

\* ---------------------------------------------------- weights and decision
Dimensions == <<"skills", "experience", "culture", "domain", "logistics">>

\* variant of FullWeights: ten points of weight moved from skills to culture
FullWeightsCultureHeavy ==
    [skills |-> 35, experience |-> 20, culture |-> 30, domain |-> 10, logistics |-> 5]

FullWeights == [skills |-> 45, experience |-> 20, culture |-> 20, domain |-> 10, logistics |-> 5]

ReducedWeights == [skills |-> 45, experience |-> 20, culture |-> 10, domain |-> 15, logistics |-> 10]

\* variant of WeightsFor: the two tables are exchanged
WeightsForExchanged(weight) == IF weight = 10 THEN FullWeights ELSE ReducedWeights

\* the weight table chosen from the weight the culture scorer returned
WeightsFor(weight) == IF weight = 10 THEN ReducedWeights ELSE FullWeights

\* variant of OverallScore: the quotient is rounded to the nearest integer
OverallScoreRounded(scores, weights) ==
    (scores.skills * weights.skills + scores.experience * weights.experience
     + scores.culture * weights.culture + scores.domain * weights.domain
     + scores.logistics * weights.logistics + 50) \div 100

\* int(sum(score * weight) / 100)
OverallScore(scores, weights) ==
    (scores.skills * weights.skills + scores.experience * weights.experience
     + scores.culture * weights.culture + scores.domain * weights.domain
     + scores.logistics * weights.logistics) \div 100

\* variant of DecisionBand: the thresholds are exclusive
DecisionBandExclusive(overall_score) ==
    IF overall_score > 75 THEN "proceed"
    ELSE IF overall_score > 50 THEN "maybe"
    ELSE "reject"

DecisionBand(overall_score) ==
    IF overall_score >= 75 THEN "proceed"
    ELSE IF overall_score >= 50 THEN "maybe"
    ELSE "reject"

\* ----------------------------------------------------------- justification
\* max(scores, key=scores.get): the first dimension, in dict order, of greatest score
BestDimension(scores) ==
    Dimensions[CHOOSE i \in 1..5 :
        /\ \A j \in 1..5 : scores[Dimensions[j]] <= scores[Dimensions[i]]
        /\ \A j \in 1..(i - 1) : scores[Dimensions[j]] < scores[Dimensions[i]]]

\* min(scores, key=scores.get): the first dimension, in dict order, of least score
WorstDimension(scores) ==
    Dimensions[CHOOSE i \in 1..5 :
        /\ \A j \in 1..5 : scores[Dimensions[j]] >= scores[Dimensions[i]]
        /\ \A j \in 1..(i - 1) : scores[Dimensions[j]] > scores[Dimensions[i]]]

OutOf100(n) == "(" \o ToString(n) \o "/100)."

\* variant of Assessment: the thresholds are exclusive
AssessmentExclusive(overall_score) ==
    IF overall_score > 75 THEN <<"Strong", "match", OutOf100(overall_score)>>
    ELSE IF overall_score > 50 THEN <<"Moderate", "match", OutOf100(overall_score)>>
    ELSE <<"Poor", "match", OutOf100(overall_score)>>

\* the leading assessment: label and score
Assessment(overall_score) ==
    IF overall_score >= 75 THEN <<"Strong", "match", OutOf100(overall_score)>>
    ELSE IF overall_score >= 50 THEN <<"Moderate", "match", OutOf100(overall_score)>>
    ELSE <<"Poor", "match", OutOf100(overall_score)>>

\* variant of Assembled: all the reasons handed over are quoted
AssembledAllReasons(overall_score, scores, top_reasons, missing) ==
    LET best == BestDimension(scores)
        worst == WorstDimension(scores)
    IN Assessment(overall_score)
       \o <<"Strongest:", best, OutOf100(scores[best])>>
       \o (IF scores[worst] < 60 THEN <<"Weakest:", worst, OutOf100(scores[worst])>>
           ELSE <<>>)
       \o (IF top_reasons # <<>>
           THEN <<"Key", "factors:">> \o Suffix(Join(top_reasons, ";"), ".")
           ELSE <<>>)
       \o (IF Len(missing) > 1
           THEN <<"Limited", "by", "missing", "data", "(" \o ToString(Len(missing)),
                  "items).">>
           ELSE <<>>)

\* the justification before the word limit is applied
Assembled(overall_score, scores, top_reasons, missing) ==
    LET best == BestDimension(scores)
        worst == WorstDimension(scores)
    IN Assessment(overall_score)
       \o <<"Strongest:", best, OutOf100(scores[best])>>
       \o (IF scores[worst] < 60 THEN <<"Weakest:", worst, OutOf100(scores[worst])>>
           ELSE <<>>)
       \o (IF top_reasons # <<>>
           THEN <<"Key", "factors:">> \o Suffix(Join(Take(top_reasons, 2), ";"), ".")
           ELSE <<>>)
       \o (IF Len(missing) > 1
           THEN <<"Limited", "by", "missing", "data", "(" \o ToString(Len(missing)),
                  "items).">>
           ELSE <<>>)

\* variant of Truncate: every text of more than 97 words is cut
TruncateOver97(words) == IF Len(words) > 97 THEN Suffix(Take(words, 97), "...") ELSE words

\* variant of Truncate: 100 words are kept and the ellipsis is a word of its own
TruncateAt100(words) == IF Len(words) > 100 THEN Take(words, 100) \o <<"...">> ELSE words

\* words[:97] joined, with "..." appended, when there are more than 100 words
Truncate(words) == IF Len(words) > 100 THEN Suffix(Take(words, 97), "...") ELSE words

\* _generate_justification
generate_justification(overall_score, decision, scores, top_reasons, missing) ==
    Truncate(Assembled(overall_score, scores, top_reasons, missing))

\* --------------------------------------------------------------- scorecard
ScoreCardKeys ==
    {"overall_score", "sub_scores", "decision", "justification", "reasons",
     "missing_data", "evidence"}

\* variant of CapReasons: reasons[-8:], the front is dropped
CapReasonsLast(rs) == SubSeq(rs, Max2(1, Len(rs) - 7), Len(rs))

\* reasons[:8]
CapReasons(rs) == Take(rs, 8)
\* variant of CapEvidence: evidence[:3]
CapEvidenceThree(ev) == Take(ev, 3)


\* evidence[:6]
CapEvidence(ev) == Take(ev, 6)

\* the errors of ScoreCard(overall_score=..., sub_scores=SubScores(...), ...)
\* SubScores is constructed first, so its errors are raised before ScoreCard's
ScoreCardErrors(overall_score, scores) ==
    LET sub == SelectSeq([i \in 1..5 |-> [type |-> "out_of_range", loc |-> <<Dimensions[i]>>]],
                         LAMBDA e : ~InPercentRange(scores[e.loc[1]]))
    IN IF sub # <<>> THEN sub
       ELSE IF InPercentRange(overall_score) THEN <<>>
       ELSE <<[type |-> "out_of_range", loc |-> <<"overall_score">>]>>

\* variant of Catches: only the `except ValidationError` clause is present
CatchesValidationErrorOnly(e) == e.exc = "ValidationError"

\* the except clauses: every exception of the try block is turned into data
Catches(e) == e.exc = "ValidationError" \/ e.exc \in {"KeyError", "TypeError"}

ErrorResult(e) ==
    IF e.exc = "ValidationError"
    THEN [error |-> "validation_failed", details |-> e.details]
    ELSE [error |-> "calculation_failed", details |-> e.details]

\* ------------------------------------------------------------------ inputs
EmptyDict == [x \in {} |-> x]

DropKey(d, k) == [x \in DOMAIN d \ {k} |-> d[x]]

\* the dicts that hold key k with a value of S, and the dict without k
Opt(k, S) == {EmptyDict} \cup {k :> v : v \in S}

Merge(A, B) == {a @@ b : a \in A, b \in B}

\* Each part is the slice of the request that one scorer reads:
\* [job |-> fields of job_spec, cand |-> fields of candidate_profile].
SkillsLo == [job |-> EmptyDict, cand |-> EmptyDict]

SkillsHi ==
    [job |-> [must_have_hard_skills |-> <<"Python ", "PostgreSQL">>,
              nice_to_have_hard_skills |-> <<"Docker">>,
              tech_stack |-> <<"python", "PostgreSQL">>],
     cand |-> [skills |-> <<"python", "postgres", "docker">>]]

SkillsIn ==
    {SkillsLo, SkillsHi} \cup
    {[job |-> [must_have_hard_skills |-> must] @@ extras, cand |-> [skills |-> sk]] :
        must \in SeqsUpTo({"Python ", "PostgreSQL", " ", "rust"}, MaxSkills),
        extras \in {EmptyDict,
                    [nice_to_have_hard_skills |-> <<"Docker">>,
                     tech_stack |-> <<"python", "PostgreSQL">>],
                    [nice_to_have_hard_skills |-> <<"go", "rust">>,
                     tech_stack |-> <<"go", "python", "Python ">>]},
        sk \in {<<>>, <<"python">>, <<"python", "postgres", "docker">>,
                <<"postgresql", "Python ", "python", "go">>}}

ExperienceLo == [job |-> EmptyDict, cand |-> EmptyDict]

ExperienceHi ==
    [job |-> [experience_requirements |-> [years_min |-> 1], seniority |-> "Senior"],
     cand |-> [years_experience |-> MaxYears, current_title |-> "Senior Developer"]]

ExperienceIn ==
    {ExperienceLo, ExperienceHi} \cup
    {[job |-> er @@ sen, cand |-> ye @@ title] :
        er \in Opt("experience_requirements",
                   {EmptyDict} \cup {[years_min |-> y] : y \in 0..MaxYears}),
        sen \in Opt("seniority", {"Senior", "mid", "chief", "unspecified"}),
        ye \in Opt("years_experience", 0..MaxYears),
        title \in Opt("current_title", {"Senior Developer", "Intern"})}

CultureScores == {0, 20, 45, 50, 60, 85, 100}

CompanyDicts ==
    {[name |-> "Acme"], [name |-> "Acme", culture_values |-> <<"openness", "craft">>]}
    \cup {[name |-> "Acme", culture_fit |-> [score |-> v]] : v \in CultureScores}
    \cup {[name |-> "Acme", culture_values |-> <<"openness">>,
           culture_fit |-> [score |-> 85, notes |-> <<"good">>]]}

InvalidCompanyDicts ==
    {[culture_values |-> <<"openness">>],
     [name |-> "Acme", culture_fit |-> [notes |-> <<"good">>]],
     [name |-> "Acme", culture_fit |-> [score |-> 101]],
     [name |-> "Acme", culture_fit |-> [score |-> 0 - 1]]}

DetailsDicts ==
    {[name |-> "Acme"], [name |-> "Acme", culture_fit |-> [score |-> 50]],
     [culture_values |-> <<"openness">>]}

CompanyLo == EmptyDict

CompanyHi == [company_profile |-> [name |-> "Acme", culture_fit |-> [score |-> 85]]]

\* the company members of the request
CompanyIn ==
    {CompanyLo, CompanyHi}
    \cup {[company_profile |-> c] : c \in CompanyDicts \cup InvalidCompanyDicts \cup {EmptyDict}}
    \cup Merge({EmptyDict, [company_profile |-> EmptyDict],
                [company_profile |-> [name |-> "Acme", culture_fit |-> [score |-> 85]]]},
               {[company_details |-> ds] : ds \in SeqsUpTo(DetailsDicts, MaxDetails)})

DomainLo == [job |-> EmptyDict, cand |-> EmptyDict]

DomainHi ==
    [job |-> [industry |-> "FinTech", domain_knowledge |-> <<"FinTech">>],
     cand |-> [industry_experience |-> <<"fintech">>]]

DomainIn ==
    {DomainLo, DomainHi} \cup
    {[job |-> ind @@ dk, cand |-> ie] :
        ind \in Opt("industry", {"FinTech", "fin", LongIndustry, ""}),
        dk \in Opt("domain_knowledge", {<<"FinTech">>, <<"payments", "health">>}),
        ie \in Opt("industry_experience",
                   {<<"fintech">>, <<"Payments", "FINTECH">>, <<LongIndustry>>, <<"health">>,
                    <<"health", "fin">>})}

LogisticsLo == [job |-> EmptyDict, cand |-> EmptyDict]

LogisticsHi ==
    [job |-> [location |-> [type |-> "remote"], salary_range |-> [max |-> MaxSalary]],
     cand |-> [locations |-> [type |-> "Remote"], salary_expectation |-> [min |-> 1]]]

LocationDicts == Opt("type", {"onsite", "hybrid", "remote"})

LogisticsIn ==
    {LogisticsLo, LogisticsHi} \cup
    {[job |-> loc @@ sal, cand |-> cloc @@ csal] :
        loc \in Opt("location", LocationDicts),
        sal \in Opt("salary_range", Opt("max", 1..MaxSalary)),
        cloc \in Opt("locations", LocationDicts),
        csal \in Opt("salary_expectation", Opt("min", 1..MaxSalary))}

\* the request built from one part per scorer and the company members
MkRequest(s, e, c, d, l) ==
    [job_spec |-> [role_title |-> "Engineer"] @@ s.job @@ e.job @@ d.job @@ l.job,
     candidate_profile |-> [name |-> "Test"] @@ s.cand @@ e.cand @@ d.cand @@ l.cand]
    @@ c

\* requests in which every part is one of its two representatives
CoreRequests ==
    {MkRequest(s, e, c, d, l) :
        s \in {SkillsLo, SkillsHi}, e \in {ExperienceLo, ExperienceHi},
        c \in {CompanyLo, CompanyHi}, d \in {DomainLo, DomainHi},
        l \in {LogisticsLo, LogisticsHi}}

\* valid-shaped requests: one part ranges over all its values, the others over
\* their two representatives
ShapedRequests ==
    {MkRequest(s, e, c, d, l) :
        s \in SkillsIn, e \in {ExperienceLo, ExperienceHi}, c \in {CompanyLo, CompanyHi},
        d \in {DomainLo, DomainHi}, l \in {LogisticsLo, LogisticsHi}}
    \cup {MkRequest(s, e, c, d, l) :
        s \in {SkillsLo, SkillsHi}, e \in ExperienceIn, c \in {CompanyLo, CompanyHi},
        d \in {DomainLo, DomainHi}, l \in {LogisticsLo, LogisticsHi}}
    \cup {MkRequest(s, e, c, d, l) :
        s \in {SkillsLo, SkillsHi}, e \in {ExperienceLo, ExperienceHi}, c \in CompanyIn,
        d \in {DomainLo, DomainHi}, l \in {LogisticsLo, LogisticsHi}}
    \cup {MkRequest(s, e, c, d, l) :
        s \in {SkillsLo, SkillsHi}, e \in {ExperienceLo, ExperienceHi},
        c \in {CompanyLo, CompanyHi}, d \in DomainIn, l \in {LogisticsLo, LogisticsHi}}
    \cup {MkRequest(s, e, c, d, l) :
        s \in {SkillsLo, SkillsHi}, e \in {ExperienceLo, ExperienceHi},
        c \in {CompanyLo, CompanyHi}, d \in {DomainLo, DomainHi}, l \in LogisticsIn}

\* requests with a member or a required field removed
BrokenRequests ==
    {EmptyDict}
    \cup UNION {{DropKey(r, "job_spec"), DropKey(r, "candidate_profile"),
                 [r EXCEPT !.job_spec = DropKey(@, "role_title")],
                 [r EXCEPT !.candidate_profile = DropKey(@, "name")],
                 [r EXCEPT !.job_spec = DropKey(@, "role_title"),
                           !.candidate_profile = DropKey(@, "name")],
                 [r EXCEPT !.job_spec = EmptyDict],
                 [r EXCEPT !.candidate_profile = EmptyDict]} : r \in CoreRequests}

\* r with the given job_spec and candidate_profile fields put in place
Override(r, job_fields, cand_fields) ==
    [r EXCEPT !.job_spec = job_fields @@ @, !.candidate_profile = cand_fields @@ @]

\* field values outside the ranges and enumerations the schemas describe
OutOfRangeFields ==
    {[job |-> j, cand |-> EmptyDict] :
        j \in {[experience_requirements |-> [years_min |-> 0 - 1]],
               [experience_requirements |-> [years_min |-> 1, years_pref |-> 0 - 1]],
               [salary_range |-> [min |-> MaxSalary, max |-> 1]],
               [salary_range |-> [max |-> 1, period |-> "week"]],
               [location |-> [type |-> "moon"]],
               [role_title |-> ""]}}
    \cup {[job |-> EmptyDict, cand |-> [years_experience |-> 0 - 1]]}

OutOfRangeRequests ==
    {Override(r, f.job, f.cand) : r \in CoreRequests, f \in OutOfRangeFields}

\* the perfect-match scenario reduced to the fields that earn the score
PerfectMatchRequests ==
    {[job_spec |-> [role_title |-> "Engineer",
                    must_have_hard_skills |-> <<"python", "postgres">>,
                    experience_requirements |-> [years_min |-> 5],
                    industry |-> ind],
      candidate_profile |-> [name |-> "Test",
                             skills |-> <<"python", "postgres", "docker">>,
                             years_experience |-> 7,
                             industry_experience |-> <<ind>>],
      company_profile |-> [name |-> "Acme", culture_fit |-> [score |-> 85]]] :
        ind \in {"fintech", "health"}}

\* poor matches: no job skill held and fewer years than the minimum, with the
\* other dimensions ranging up to their best
PoorMatchRequests ==
    {MkRequest(s, [job |-> [experience_requirements |-> [years_min |-> MaxYears]] @@ sen,
                   cand |-> ye @@ title], c, d, l) :
        s \in {SkillsLo,
               [job |-> [must_have_hard_skills |-> <<"rust">>, tech_stack |-> <<"go">>],
                cand |-> [skills |-> <<"python">>]],
               [job |-> [must_have_hard_skills |-> <<"Python ", "PostgreSQL">>,
                         nice_to_have_hard_skills |-> <<"Docker">>],
                cand |-> EmptyDict]},
        sen \in Opt("seniority", {"Senior", "mid", "chief"}),
        ye \in Opt("years_experience", 0..(MaxYears - 1)),
        title \in Opt("current_title", {"Senior Developer", "Intern"}),
        c \in {CompanyLo,
               [company_profile |-> [name |-> "Acme", culture_fit |-> [score |-> 100]]],
               [company_profile |-> [name |-> "Acme", culture_values |-> <<"openness">>]]},
        d \in {DomainLo, DomainHi},
        l \in {LogisticsLo, LogisticsHi}}

\* no must-have skill is matched, every other dimension ranges up to its best
NoMustHaveRequests ==
    {MkRequest([job |-> must @@ [nice_to_have_hard_skills |-> <<"Docker">>,
                                 tech_stack |-> <<"python", "PostgreSQL">>],
                cand |-> [skills |-> <<"python", "postgres", "docker">>]],
               e, c, d, l) :
        must \in Opt("must_have_hard_skills", {<<>>, <<"rust">>, <<" ">>}),
        e \in {ExperienceLo, ExperienceHi},
        c \in {CompanyLo, CompanyHi,
               [company_profile |-> [name |-> "Acme", culture_fit |-> [score |-> 100]]]},
        d \in {DomainLo, DomainHi},
        l \in {LogisticsLo, LogisticsHi}}

\* every scorer at its lowest: no skill held, too few years and the wrong title
\* for the level, no matching industry, location types and salaries that do not fit
WorstCaseRequests ==
    {MkRequest([job |-> [must_have_hard_skills |-> <<"rust">>],
                cand |-> [skills |-> <<"python">>]],
               [job |-> [experience_requirements |-> [years_min |-> MaxYears],
                         seniority |-> "Senior"],
                cand |-> [years_experience |-> 0, current_title |-> "Intern"]],
               c, DomainLo,
               [job |-> [location |-> [type |-> "onsite"], salary_range |-> [max |-> 1]],
                cand |-> [locations |-> [type |-> "hybrid"],
                          salary_expectation |-> [min |-> MaxSalary]]]) :
        c \in {CompanyLo,
               [company_profile |-> [name |-> "Acme", culture_fit |-> [score |-> 0]]]}}

Requests ==
    WorstCaseRequests \cup NoMustHaveRequests \cup ShapedRequests \cup BrokenRequests \cup OutOfRangeRequests \cup PerfectMatchRequests
    \cup PoorMatchRequests

\* arguments of a direct call of _generate_justification
ReasonLengths == {0, 1, LongWords}

\* reason number i of a direct call, n words long
ReasonText(i, n) == [k \in 1..n |-> "r" \o ToString(i)]

JustifyArgs ==
    {[overall_score |-> o,
      scores |-> [skills |-> sc[1], experience |-> sc[2], culture |-> sc[3],
                  domain |-> sc[4], logistics |-> sc[5]],
      top_reasons |-> [i \in 1..Len(lens) |-> ReasonText(i, lens[i])],
      missing_data |-> [i \in 1..m |-> "field" \o ToString(i)]] :
        o \in {49, 50, 74, 75},
        sc \in {<<60, 60, 60, 60, 60>>, <<59, 60, 60, 60, 59>>, <<100, 100, 0, 100, 100>>,
                <<60, 75, 75, 60, 70>>},
        lens \in SeqsUpTo(ReasonLengths, MaxReasons),
        m \in 0..MaxMissing}

\* ------------------------------------------------------------------- state
VARIABLES
    pc,              \* position: idle, validate, skills, experience, culture, domain,
                     \* logistics, assemble, done, raised, justified
    match_data,      \* the argument of calculate_match_score
    job_spec,        \* the validated JobSpec
    candidate,       \* the validated CandidateProfile
    company,         \* the validated CompanyProfile, or None
    missing_data,    \* the shared missing_data list
    evidence,        \* the shared evidence list
    reasons,         \* the shared reasons list
    sub_scores,      \* the scores computed so far, by dimension
    culture_weight,  \* the weight the culture scorer returned (0 before it ran)
    result,          \* the value calculate_match_score returned, or None
    just_args,       \* the arguments of a direct _generate_justification call
    justification,   \* the text _generate_justification returned
    memo,            \* an earlier call and its result, or None
    total_score,     \* the overall score computed directly from given subscores
    tech_list,       \* the argument of a direct _normalize_tech call
    normalized       \* the list _normalize_tech returned

vars == <<pc, match_data, job_spec, candidate, company, missing_data, evidence, reasons,
          sub_scores, culture_weight, result, just_args, justification, memo,
          total_score, tech_list, normalized>>

Init ==
    /\ pc = "idle"
    /\ match_data = None
    /\ job_spec = None
    /\ candidate = None
    /\ company = None
    /\ missing_data = <<>>
    /\ evidence = <<>>
    /\ reasons = <<>>
    /\ sub_scores = EmptyDict
    /\ culture_weight = 0
    /\ result = None
    /\ just_args = None
    /\ justification = <<>>
    /\ memo = None
    /\ total_score = 0
    /\ tech_list = <<>>
    /\ normalized = <<>>

\* variant of NewList: the list of the previous call is used again
StaleList(previous) == previous

\* a list created by a `[]` display at the start of the scoring block
NewList(previous) == <<>>

\* calculate_match_score is called with md
Invoke(md) ==
    /\ pc = "idle"
    /\ pc' = "validate"
    /\ match_data' = md
    /\ result' = None
    /\ UNCHANGED <<job_spec, candidate, company, missing_data, evidence, reasons,
                   sub_scores, culture_weight, just_args, justification, memo,
                   total_score, tech_list, normalized>>

Call == pc = "idle" /\ \E md \in Requests : Invoke(md)

\* the validation block succeeds; the three lists are created
Validated(next) ==
    /\ pc = "validate"
    /\ ValidationRaises(match_data) = NoException
    /\ job_spec' = JobSpecValidate(match_data.job_spec)
    /\ candidate' = CandidateValidate(match_data.candidate_profile)
    /\ company' = IF SelectCompany(match_data) = None THEN None
                  ELSE CompanyValidate(SelectCompany(match_data))
    /\ missing_data' = NewList(missing_data)
    /\ evidence' = NewList(evidence)
    /\ reasons' = NewList(reasons)
    /\ sub_scores' = EmptyDict
    /\ culture_weight' = 0
    /\ pc' = next
    /\ UNCHANGED <<match_data, result, just_args, justification, memo,
                   total_score, tech_list, normalized>>

validate_ok == Validated("skills")

\* an exception e leaves the try block: it is returned as data if an except
\* clause catches it, and propagates to the caller otherwise
Except(e) ==
    /\ result' = IF Catches(e) THEN ErrorResult(e) ELSE None
    /\ pc' = IF Catches(e) THEN "done" ELSE "raised"

\* the validation block raises ValidationError
validation_failed ==
    /\ pc = "validate"
    /\ ValidationRaises(match_data).exc = "ValidationError"
    /\ Except(ValidationRaises(match_data))
    /\ UNCHANGED <<match_data, job_spec, candidate, company, missing_data, evidence,
                   reasons, sub_scores, culture_weight, just_args, justification, memo,
                   total_score, tech_list, normalized>>

\* the validation block raises another exception
calculation_failed ==
    /\ pc = "validate"
    /\ ValidationRaises(match_data).exc \notin {"none", "ValidationError"}
    /\ Except(ValidationRaises(match_data))
    /\ UNCHANGED <<match_data, job_spec, candidate, company, missing_data, evidence,
                   reasons, sub_scores, culture_weight, just_args, justification, memo,
                   total_score, tech_list, normalized>>

\* variant of Scored: the scorer's items replace the lists
ScoredFresh(dimension, outcome, next) ==
    /\ sub_scores' = sub_scores @@ (dimension :> outcome.score)
    /\ evidence' = outcome.evidence
    /\ reasons' = outcome.reasons
    /\ missing_data' = outcome.missing
    /\ pc' = next
    /\ UNCHANGED <<match_data, job_spec, candidate, company, result, just_args,
                   justification, memo,
                   total_score, tech_list, normalized>>

\* a scorer has run: its score is kept and its items are appended to the lists
Scored(dimension, outcome, next) ==
    /\ sub_scores' = sub_scores @@ (dimension :> outcome.score)
    /\ evidence' = evidence \o outcome.evidence
    /\ reasons' = reasons \o outcome.reasons
    /\ missing_data' = missing_data \o outcome.missing
    /\ pc' = next
    /\ UNCHANGED <<match_data, job_spec, candidate, company, result, just_args,
                   justification, memo,
                   total_score, tech_list, normalized>>

calculate_skills_score ==
    /\ pc = "skills"
    /\ Scored("skills", SkillsOutcome(job_spec, candidate), "experience")
    /\ UNCHANGED culture_weight

calculate_experience_score ==
    /\ pc = "experience"
    /\ Scored("experience", ExperienceOutcome(job_spec, candidate), "culture")
    /\ UNCHANGED culture_weight

calculate_culture_score ==
    /\ pc = "culture"
    /\ Scored("culture", CultureOutcome(job_spec, candidate, company), "domain")
    /\ culture_weight' = CultureOutcome(job_spec, candidate, company).weight

calculate_domain_score ==
    /\ pc = "domain"
    /\ Scored("domain", DomainOutcome(job_spec, candidate), "logistics")
    /\ UNCHANGED culture_weight

calculate_logistics_score ==
    /\ pc = "logistics"
    /\ Scored("logistics", LogisticsOutcome(job_spec, candidate), "assemble")
    /\ UNCHANGED culture_weight

\* the ScoreCard built from the scores and lists, or the error its construction raises
ScoreCard(scores, weight, rs, md, ev) ==
    LET overall_score == OverallScore(scores, WeightsFor(weight))
        decision == DecisionBand(overall_score)
    IN IF ScoreCardErrors(overall_score, scores) # <<>>
       THEN ErrorResult(ValidationError(ScoreCardErrors(overall_score, scores)))
       ELSE [overall_score |-> overall_score,
             sub_scores |-> scores,
             decision |-> decision,
             justification |-> generate_justification(overall_score, decision, scores,
                                                      Take(rs, 3), md),
             reasons |-> CapReasons(rs),
             missing_data |-> md,
             evidence |-> CapEvidence(ev)]

\* weights, overall score, decision, justification and the ScoreCard
assemble ==
    /\ pc = "assemble"
    /\ result' = ScoreCard(sub_scores, culture_weight, reasons, missing_data, evidence)
    /\ pc' = "done"
    /\ UNCHANGED <<match_data, job_spec, candidate, company, missing_data, evidence,
                   reasons, sub_scores, culture_weight, just_args, justification, memo,
                   total_score, tech_list, normalized>>

\* _generate_justification is called directly
Justify(a) ==
    /\ pc = "idle"
    /\ just_args' = a
    /\ justification' = generate_justification(a.overall_score,
                                               DecisionBand(a.overall_score), a.scores,
                                               a.top_reasons, a.missing_data)
    /\ pc' = "justified"
    /\ UNCHANGED <<match_data, job_spec, candidate, company, missing_data, evidence,
                   reasons, sub_scores, culture_weight, result, memo,
                   total_score, tech_list, normalized>>

CallJustify == pc = "idle" /\ \E a \in JustifyArgs : Justify(a)

Pipeline ==
    \/ validate_ok
    \/ validation_failed
    \/ calculation_failed
    \/ calculate_skills_score
    \/ calculate_experience_score
    \/ calculate_culture_score
    \/ calculate_domain_score
    \/ calculate_logistics_score
    \/ assemble

Next == Call \/ Pipeline \/ CallJustify

Spec == Init /\ [][Next]_vars

\* ------------------------------------------------------- repeated invocation
\* the requests drawn when the engine is invoked again and again
RepeatRequests ==
    {MkRequest(s, ExperienceHi, c, DomainHi, l) :
        s \in {SkillsLo, SkillsHi,
               [job |-> [must_have_hard_skills |-> <<"Python ", "rust">>],
                cand |-> [skills |-> <<"python">>]]},
        c \in {CompanyLo, CompanyHi}, l \in {LogisticsLo, LogisticsHi}}
    \cup {EmptyDict,
          DropKey(MkRequest(SkillsHi, ExperienceHi, CompanyHi, DomainHi, LogisticsHi),
                  "candidate_profile"),
          [MkRequest(SkillsHi, ExperienceHi, CompanyHi, DomainHi, LogisticsHi)
              EXCEPT !.job_spec = DropKey(@, "role_title")]}

CallAgain == pc = "idle" /\ \E md \in RepeatRequests : Invoke(md)

\* the call has returned; the caller may keep the request and its result
Return ==
    /\ pc = "done"
    /\ pc' = "idle"
    /\ \/ memo' = memo
       \/ memo' = [request |-> match_data, result |-> result]
    /\ UNCHANGED <<match_data, job_spec, candidate, company, missing_data, evidence,
                   reasons, sub_scores, culture_weight, result, just_args, justification,
                   total_score, tech_list, normalized>>

NextRepeat == CallAgain \/ Pipeline \/ Return

SpecRepeat == Init /\ [][NextRepeat]_vars

\* ------------------------------------------------- scorers in any order
\* The scorers take the three lists as arguments and append to them; here the
\* five calls of lines 185-198 are made one at a time in an arbitrary order.
OutcomeOf(dimension) ==
    CASE dimension = "skills" -> SkillsOutcome(job_spec, candidate)
      [] dimension = "experience" -> ExperienceOutcome(job_spec, candidate)
      [] dimension = "culture" -> CultureOutcome(job_spec, candidate, company)
      [] dimension = "domain" -> DomainOutcome(job_spec, candidate)
      [] dimension = "logistics" -> LogisticsOutcome(job_spec, candidate)

CallAnyOrder == pc = "idle" /\ \E md \in RepeatRequests : Invoke(md)

validate_any_order == Validated("scoring")

\* the scorer of one dimension that has not run yet runs
ScoreInAnyOrder(dimension) ==
    /\ pc = "scoring"
    /\ dimension \notin DOMAIN sub_scores
    /\ Scored(dimension, OutcomeOf(dimension),
              IF DOMAIN sub_scores \cup {dimension} = Range(Dimensions)
              THEN "assemble" ELSE "scoring")
    /\ culture_weight' = IF dimension = "culture" THEN OutcomeOf(dimension).weight
                         ELSE culture_weight

score_any_order == \E dimension \in Range(Dimensions) : ScoreInAnyOrder(dimension)

NextAnyOrder ==
    \/ CallAnyOrder
    \/ validate_any_order
    \/ validation_failed
    \/ calculation_failed
    \/ score_any_order
    \/ assemble

SpecAnyOrder == Init /\ [][NextAnyOrder]_vars

\* ------------------------------------------- the skills scorer called directly
\* the skill lists of a direct call of _calculate_skills_score
SkillsCalls ==
    {[job |-> [must_have_hard_skills |-> must, nice_to_have_hard_skills |-> nice,
               tech_stack |-> tech],
      cand |-> [skills |-> sk]] :
        must \in SeqsUpTo({"python", "postgres", "rust"}, MaxSkillList),
        nice \in {<<>>, <<"docker">>, <<"docker", "go", "js">>},
        tech \in {<<>>, <<"python", "go", "js">>},
        sk \in {<<>>, <<"python">>, <<"python", "postgres">>,
                <<"python", "postgres", "docker">>, <<"python", "docker", "go">>}}

\* _calculate_skills_score(job_spec, candidate, evidence, reasons) with fresh lists
ScoreSkills(part) ==
    LET job == JobSpecValidate([role_title |-> "Engineer"] @@ part.job)
        cand == CandidateValidate([name |-> "Test"] @@ part.cand)
        outcome == SkillsOutcome(job, cand)
    IN /\ pc = "idle"
       /\ job_spec' = job
       /\ candidate' = cand
       /\ sub_scores' = ("skills" :> outcome.score)
       /\ evidence' = outcome.evidence
       /\ reasons' = outcome.reasons
       /\ pc' = "scored"
       /\ UNCHANGED <<match_data, company, missing_data, culture_weight, result,
                      just_args, justification, memo,
                      total_score, tech_list, normalized>>

CallSkills == pc = "idle" /\ \E part \in SkillsCalls : ScoreSkills(part)

NextSkills == CallSkills

SpecSkills == Init /\ [][NextSkills]_vars

\* ------------------------------------------ the weighted sum computed directly
\* subscores and culture weights for which lines 200-212 are evaluated
WeighArgs ==
    {[scores |-> sc, weight |-> w] :
        sc \in [Range(Dimensions) -> {0, 1, 50, 99, 100}], w \in {10, 20}}

\* the weight table is selected and overall_score computed
Weigh(a) ==
    /\ pc = "idle"
    /\ sub_scores' = a.scores
    /\ culture_weight' = a.weight
    /\ total_score' = OverallScore(a.scores, WeightsFor(a.weight))
    /\ pc' = "weighed"
    /\ UNCHANGED <<match_data, job_spec, candidate, company, missing_data, evidence,
                   reasons, result, just_args, justification, memo, tech_list,
                   normalized>>

CallWeigh == pc = "idle" /\ \E a \in WeighArgs : Weigh(a)

NextWeigh == CallWeigh

SpecWeigh == Init /\ [][NextWeigh]_vars

\* ------------------------------------------- the normalizer called directly
\* the lists of a direct call of _normalize_tech
NormalizeArgs ==
    SeqsUpTo({"Python ", "python", "PostgreSQL", "postgres", " ", "", "JavaScript",
              "Node.js"}, MaxTechs)

\* _normalize_tech(xs)
Normalize(xs) ==
    /\ pc = "idle"
    /\ tech_list' = xs
    /\ normalized' = normalize_tech(xs)
    /\ pc' = "normalized"
    /\ UNCHANGED <<match_data, job_spec, candidate, company, missing_data, evidence,
                   reasons, sub_scores, culture_weight, result, just_args,
                   justification, memo, total_score>>

CallNormalize == pc = "idle" /\ \E xs \in NormalizeArgs : Normalize(xs)

\* _normalize_tech is called with the list it returned
NormalizeAgain ==
    /\ pc = "normalized"
    /\ tech_list' = normalized
    /\ normalized' = normalize_tech(normalized)
    /\ pc' = "renormalized"
    /\ UNCHANGED <<match_data, job_spec, candidate, company, missing_data, evidence,
                   reasons, sub_scores, culture_weight, result, just_args,
                   justification, memo, total_score>>

NextNormalize == CallNormalize \/ NormalizeAgain

SpecNormalize == Init /\ [][NextNormalize]_vars

\* ------------------------------------------------------------------ claims
IsScoreCard(r) == DOMAIN r = ScoreCardKeys

IsError(r) == DOMAIN r = {"error", "details"}

ReturnedScoreCard == pc = "done" /\ IsScoreCard(result)

\* what the five scorers produce for the validated input, in scoring order
ProducedReasons ==
    SkillsOutcome(job_spec, candidate).reasons
    \o ExperienceOutcome(job_spec, candidate).reasons
    \o CultureOutcome(job_spec, candidate, company).reasons
    \o DomainOutcome(job_spec, candidate).reasons
    \o LogisticsOutcome(job_spec, candidate).reasons

ProducedEvidence ==
    SkillsOutcome(job_spec, candidate).evidence
    \o ExperienceOutcome(job_spec, candidate).evidence
    \o CultureOutcome(job_spec, candidate, company).evidence
    \o DomainOutcome(job_spec, candidate).evidence
    \o LogisticsOutcome(job_spec, candidate).evidence

\* C1: in every returned ScoreCard the overall score and each of the five
\* subscores is an integer in [0,100].
C1_ScoresInRange ==
    ReturnedScoreCard =>
        /\ result.overall_score \in 0..100
        /\ DOMAIN result.sub_scores = Range(Dimensions)
        /\ \A d \in Range(Dimensions) : result.sub_scores[d] \in 0..100

C1_Witness ==
    /\ ReturnedScoreCard
    /\ result.overall_score = 100
    /\ \A d \in Range(Dimensions) : result.sub_scores[d] = 100

\* C2: the decision of a returned ScoreCard is fixed by overall_score alone:
\* proceed from 75, maybe from 50 to 74, reject below 50.
C2_DecisionBands ==
    ReturnedScoreCard =>
        /\ result.overall_score >= 75 => result.decision = "proceed"
        /\ (result.overall_score >= 50 /\ result.overall_score < 75)
               => result.decision = "maybe"
        /\ result.overall_score < 50 => result.decision = "reject"

C2_Witness ==
    /\ ReturnedScoreCard
    /\ result.overall_score = 75
    /\ result.decision = "proceed"

\* C3: the justification of a returned ScoreCard, and the text returned by a
\* direct call of _generate_justification, has at most 100 words.
C3_JustificationWordLimit ==
    /\ ReturnedScoreCard => Len(result.justification) <= 100
    /\ pc = "justified" => Len(justification) <= 100

C3_Witness ==
    /\ ReturnedScoreCard
    /\ Len(Assembled(result.overall_score, result.sub_scores, Take(reasons, 3),
                     missing_data)) > 100
    /\ Len(result.justification) = 97

\* C4: a returned ScoreCard has at most 8 reasons and at most 6 evidence items,
\* and each list is the prefix of what the scorers produced in the order skills,
\* experience, culture, domain, logistics.
C4_ListCaps ==
    ReturnedScoreCard =>
        /\ Len(result.reasons) <= 8
        /\ Len(result.evidence) <= 6
        /\ reasons = ProducedReasons
        /\ evidence = ProducedEvidence
        /\ result.reasons = SubSeq(ProducedReasons, 1, Min2(8, Len(ProducedReasons)))
        /\ result.evidence = SubSeq(ProducedEvidence, 1, Min2(6, Len(ProducedEvidence)))

C4_Witness ==
    /\ ReturnedScoreCard
    /\ Len(ProducedReasons) = 9
    /\ Len(result.reasons) = 8

\* C5: the overall score is computed with the weights (45, 20, 20, 10, 5) exactly
\* when a company with culture_fit was supplied and its score is the culture
\* subscore, and with (45, 20, 10, 15, 10) otherwise; both tables sum to 100.
C5_WeightSelection ==
    ReturnedScoreCard =>
        LET explicit == company # None /\ Has(company, "culture_fit")
            full == [skills |-> 45, experience |-> 20, culture |-> 20, domain |-> 10,
                     logistics |-> 5]
            reduced == [skills |-> 45, experience |-> 20, culture |-> 10, domain |-> 15,
                        logistics |-> 10]
            used == WeightsFor(culture_weight)
        IN /\ used = (IF explicit THEN full ELSE reduced)
           /\ explicit => result.sub_scores.culture = company.culture_fit.score
           /\ result.overall_score = OverallScore(result.sub_scores, used)
           /\ used.skills + used.experience + used.culture + used.domain + used.logistics
                  = 100

C5_Witness ==
    /\ ReturnedScoreCard
    /\ company # None
    /\ Has(company, "culture_fit")
    /\ OverallScore(result.sub_scores, FullWeights)
           # OverallScore(result.sub_scores, ReducedWeights)

\* C6: a call with a request that was made before returns the result it returned
\* then, whatever calls were made before or between.
C6_Deterministic ==
    (pc = "done" /\ memo # None /\ memo.request = match_data) => result = memo.result

C6_Witness ==
    /\ ReturnedScoreCard
    /\ memo # None
    /\ memo.request = match_data
    /\ Len(result.reasons) = 8
    /\ result = memo.result

LacksRoleTitle == Has(match_data, "job_spec") /\ ~Has(match_data.job_spec, "role_title")

LacksName ==
    /\ Has(match_data, "job_spec")
    /\ Has(match_data, "candidate_profile")
    /\ ~Has(match_data.candidate_profile, "name")

\* C7: a request whose job_spec lacks role_title, or whose candidate_profile
\* lacks name, returns validation_failed with per-field details and no ScoreCard
\* field, and no scorer has run.
C7_ValidationShortCircuit ==
    (pc \notin {"idle", "validate", "justified"} /\ (LacksRoleTitle \/ LacksName)) =>
        /\ pc = "done"
        /\ DOMAIN result = {"error", "details"}
        /\ result.error = "validation_failed"
        /\ result.details # <<>>
        /\ \A i \in 1..Len(result.details) :
               /\ result.details[i].type = "missing"
               /\ result.details[i].loc = (IF LacksRoleTitle THEN <<"role_title">>
                                           ELSE <<"name">>)
        /\ DOMAIN result \cap ScoreCardKeys = {}
        /\ DOMAIN sub_scores = {}
        /\ reasons = <<>> /\ evidence = <<>> /\ missing_data = <<>>

C7_Witness ==
    /\ pc = "done"
    /\ LacksRoleTitle
    /\ Has(match_data, "candidate_profile")
    /\ Has(match_data.candidate_profile, "name")
    /\ result.error = "validation_failed"

\* C8: no exception escapes calculate_match_score; what it returns is a
\* complete ScoreCard or an object with exactly the members error
\* (validation_failed or calculation_failed) and details.
C8_ErrorsAsData ==
    /\ pc # "raised"
    /\ pc = "done" =>
           \/ IsScoreCard(result)
           \/ /\ IsError(result)
              /\ result.error \in {"validation_failed", "calculation_failed"}

C8_Witness ==
    /\ pc = "done"
    /\ match_data = EmptyDict
    /\ IsError(result)
    /\ result.error = "calculation_failed"

\* C9: a request without a job_spec member or without a candidate_profile
\* member returns validation_failed.
C9_MissingMemberIsValidationFailed ==
    (pc = "done" /\ (~Has(match_data, "job_spec") \/ ~Has(match_data, "candidate_profile")))
        => (IsError(result) /\ result.error = "validation_failed")

NoCompanyData ==
    /\ Has(match_data, "job_spec") /\ Has(match_data.job_spec, "role_title")
    /\ Has(match_data, "candidate_profile") /\ Has(match_data.candidate_profile, "name")
    /\ ~Has(match_data, "company_profile")
    /\ ~Has(match_data, "company_details")

\* C10: a request with a valid job_spec and candidate_profile and no company
\* member returns a complete ScoreCard with culture subscore 60, the overall
\* score of the reduced-culture weights, and company_profile.culture_fit in
\* missing_data.
C10_NoCompanyData ==
    (pc = "done" /\ NoCompanyData) =>
        /\ IsScoreCard(result)
        /\ result.sub_scores.culture = 60
        /\ result.overall_score =
               OverallScore(result.sub_scores,
                            [skills |-> 45, experience |-> 20, culture |-> 10,
                             domain |-> 15, logistics |-> 10])
        /\ "company_profile.culture_fit" \in Range(result.missing_data)

C10_Witness ==
    /\ pc = "done"
    /\ NoCompanyData
    /\ IsScoreCard(result)
    /\ OverallScore(result.sub_scores, FullWeights)
           # OverallScore(result.sub_scores, ReducedWeights)

\* the request is well-formed but a field lies outside the range or the
\* enumeration that the data model gives it
ViolatesRange(md) ==
    /\ Has(md, "job_spec") /\ Has(md.job_spec, "role_title")
    /\ Has(md, "candidate_profile") /\ Has(md.candidate_profile, "name")
    /\ LET job == md.job_spec
           cand == md.candidate_profile
           req == Get(job, "experience_requirements", EmptyDict)
           sal == Get(job, "salary_range", EmptyDict)
           loc == Get(job, "location", EmptyDict)
           comp == Get(md, "company_profile", EmptyDict)
       IN \/ Get(cand, "years_experience", 0) < 0
          \/ Get(req, "years_min", 0) < 0
          \/ Get(req, "years_pref", 0) < 0
          \/ (Has(sal, "min") /\ Has(sal, "max") /\ sal.min > sal.max)
          \/ Get(sal, "period", "year") \notin {"year", "month"}
          \/ Get(loc, "type", "onsite") \notin {"onsite", "hybrid", "remote"}
          \/ job.role_title = ""
          \/ (Has(comp, "culture_fit") /\ Has(comp.culture_fit, "score")
              /\ comp.culture_fit.score \notin 0..100)

\* C11: a well-formed request with a field outside its range or enumeration
\* (negative years_experience, years_min or years_pref, salary min above max,
\* a period other than year or month, a location type other than onsite, hybrid
\* or remote, an empty role_title, a culture_fit.score outside 0..100) returns
\* validation_failed and no scorer runs.
C11_RangeViolationsRejected ==
    (pc \notin {"idle", "validate", "justified"} /\ ViolatesRange(match_data)) =>
        /\ pc = "done"
        /\ IsError(result)
        /\ result.error = "validation_failed"
        /\ DOMAIN sub_scores = {}

\* job_spec and candidate_profile are present and carry their required fields
WellFormedPair(md) ==
    /\ Has(md, "job_spec") /\ Has(md.job_spec, "role_title")
    /\ Has(md, "candidate_profile") /\ Has(md.candidate_profile, "name")

\* the company record the request supplies: a non-empty company_profile, else the
\* first element of a non-empty company_details, else none
SuppliedCompany(md) ==
    IF Has(md, "company_profile") /\ DOMAIN md.company_profile # {}
    THEN md.company_profile
    ELSE IF Has(md, "company_details") /\ md.company_details # <<>>
         THEN Head(md.company_details)
         ELSE None

\* C12 as stated: a company_profile member that is not null, the empty object
\* included, is the record that is validated and used.
C12_NonNullProfileIsUsed ==
    (pc = "done" /\ WellFormedPair(match_data) /\ Has(match_data, "company_profile")) =>
        IF CompanyErrors(match_data.company_profile) # <<>>
        THEN IsError(result) /\ result.error = "validation_failed"
        ELSE IsScoreCard(result) /\ company = CompanyValidate(match_data.company_profile)

\* C12: the company record is a company_profile that is not empty, company_details
\* being ignored; else the first element of a non-empty company_details, later
\* elements having no effect, not even on validation; else the company is
\* absent.  That record alone is validated, and it alone feeds the culture score.
C12_CompanySelection ==
    (pc = "done" /\ WellFormedPair(match_data)) =>
        LET used == SuppliedCompany(match_data)
        IN IF used = None
           THEN IsScoreCard(result) /\ company = None
           ELSE IF CompanyErrors(used) # <<>>
           THEN result = [error |-> "validation_failed", details |-> CompanyErrors(used)]
           ELSE /\ IsScoreCard(result)
                /\ company = CompanyValidate(used)
                /\ result.sub_scores.culture =
                       (IF Has(used, "culture_fit") THEN used.culture_fit.score ELSE 60)

C12_Witness ==
    /\ pc = "done"
    /\ WellFormedPair(match_data)
    /\ Has(match_data, "company_profile")
    /\ DOMAIN match_data.company_profile = {}
    /\ Has(match_data, "company_details")
    /\ Len(match_data.company_details) = 2
    /\ CompanyErrors(match_data.company_details[2]) # <<>>
    /\ IsScoreCard(result)
    /\ result.sub_scores.culture = 50

ProducedMissing ==
    SkillsOutcome(job_spec, candidate).missing
    \o ExperienceOutcome(job_spec, candidate).missing
    \o CultureOutcome(job_spec, candidate, company).missing
    \o DomainOutcome(job_spec, candidate).missing
    \o LogisticsOutcome(job_spec, candidate).missing

\* the scores of the five scorers for the validated input
ProducedScores ==
    [skills |-> SkillsOutcome(job_spec, candidate).score,
     experience |-> ExperienceOutcome(job_spec, candidate).score,
     culture |-> CultureOutcome(job_spec, candidate, company).score,
     domain |-> DomainOutcome(job_spec, candidate).score,
     logistics |-> LogisticsOutcome(job_spec, candidate).score]

\* the two lists hold the same entries the same number of times
SameEntries(a, b) ==
    /\ Len(a) = Len(b)
    /\ \A x \in Range(a) \cup Range(b) :
           Cardinality({i \in 1..Len(a) : a[i] = x})
               = Cardinality({i \in 1..Len(b) : b[i] = x})

PerfectMatchScenario(md) ==
    /\ DOMAIN md = {"job_spec", "candidate_profile", "company_profile"}
    /\ DOMAIN md.job_spec = {"role_title", "must_have_hard_skills",
                             "experience_requirements", "industry"}
    /\ md.job_spec.must_have_hard_skills = <<"python", "postgres">>
    /\ md.job_spec.experience_requirements = [years_min |-> 5]
    /\ DOMAIN md.candidate_profile = {"name", "skills", "years_experience",
                                      "industry_experience"}
    /\ md.candidate_profile.skills = <<"python", "postgres", "docker">>
    /\ md.candidate_profile.years_experience = 7
    /\ md.candidate_profile.industry_experience = <<md.job_spec.industry>>
    /\ md.company_profile = [name |-> "Acme", culture_fit |-> [score |-> 85]]

\* C14: the perfect-match scenario returns a ScoreCard with overall_score of at
\* least 75 and decision proceed.
C14_PerfectMatchProceeds ==
    (pc = "done" /\ PerfectMatchScenario(match_data)) =>
        /\ IsScoreCard(result)
        /\ result.overall_score >= 75
        /\ result.decision = "proceed"

C14_Witness ==
    /\ pc = "done"
    /\ PerfectMatchScenario(match_data)
    /\ IsScoreCard(result)
    /\ result.sub_scores = [skills |-> 70, experience |-> 80, culture |-> 85,
                            domain |-> 90, logistics |-> 70]
    /\ result.overall_score = 77

\* the candidate holds none of the job's must-have, nice-to-have or tech-stack skills
NoJobSkillHeld ==
    Range(normalize_tech(candidate.skills))
        \cap (Range(normalize_tech(job_spec.must_have_hard_skills))
              \cup Range(normalize_tech(job_spec.nice_to_have_hard_skills))
              \cup Range(normalize_tech(job_spec.tech_stack))) = {}

\* years_min is present and the candidate's years fall short of it
BelowMinimumYears ==
    /\ Has(job_spec, "experience_requirements")
    /\ Has(job_spec.experience_requirements, "years_min")
    /\ candidate.years_experience < job_spec.experience_requirements.years_min

\* C15: when the candidate holds none of the job's skills and has fewer years
\* than a present years_min, the skills subscore is 0, the overall score is below
\* 50 and the decision is reject, whatever seniority, culture, domain, location
\* and salary are.
C15_PoorMatchRejected ==
    (pc = "done" /\ IsScoreCard(result) /\ NoJobSkillHeld /\ BelowMinimumYears) =>
        /\ result.sub_scores.skills = 0
        /\ result.overall_score < 50
        /\ result.decision = "reject"

C15_Witness ==
    /\ pc = "done"
    /\ IsScoreCard(result)
    /\ NoJobSkillHeld
    /\ BelowMinimumYears
    /\ result.sub_scores = [skills |-> 0, experience |-> 50, culture |-> 100,
                            domain |-> 100, logistics |-> 100]
    /\ result.overall_score = 45

\* the numerator and the denominator of 70*m/M + 15*n/N + 15*t/T for the
\* validated job and candidate, a coverage over an empty list being 0
CoverageFraction ==
    LET candidate_skills == Range(normalize_tech(candidate.skills))
        must_have == normalize_tech(job_spec.must_have_hard_skills)
        nice_to_have == normalize_tech(job_spec.nice_to_have_hard_skills)
        job_tech_stack == normalize_tech(job_spec.tech_stack)
        m == Cardinality(Range(must_have) \cap candidate_skills)
        n == Cardinality(Range(nice_to_have) \cap candidate_skills)
        t == Cardinality(Range(job_tech_stack) \cap candidate_skills)
        M1 == Max2(Len(must_have), 1)
        N1 == Max2(Len(nice_to_have), 1)
        T1 == Max2(Len(job_tech_stack), 1)
    IN [num |-> 70 * m * N1 * T1 + 15 * n * M1 * T1 + 15 * t * M1 * N1,
        den |-> M1 * N1 * T1]

\* round(num / den): the nearest integer, a tie going to the even one
RoundNearest(num, den) ==
    LET q == num \div den
        r == num % den
    IN IF 2 * r < den THEN q
       ELSE IF 2 * r > den THEN q + 1
       ELSE IF q % 2 = 0 THEN q ELSE q + 1

\* C16 as stated: the skills subscore is 70*m + 15*n + 15*t rounded to the nearest
\* integer (m, n, t the three coverages); 2 of 3 must-haves alone give 47.
C16_SkillsScoreRounded ==
    pc = "scored" =>
        sub_scores.skills = RoundNearest(CoverageFraction.num, CoverageFraction.den)

\* C16: the skills subscore is 70*m + 15*n + 15*t with the fraction cut off, the
\* greatest integer not above it; 2 of 3 must-haves alone give 46.
C16_SkillsScoreTruncated ==
    pc = "scored" =>
        /\ sub_scores.skills * CoverageFraction.den <= CoverageFraction.num
        /\ CoverageFraction.num < (sub_scores.skills + 1) * CoverageFraction.den

C16_Witness ==
    /\ pc = "scored"
    /\ Len(normalize_tech(job_spec.must_have_hard_skills)) = 3
    /\ job_spec.nice_to_have_hard_skills = <<>>
    /\ job_spec.tech_stack = <<>>
    /\ Len(candidate.skills) = 2
    /\ Range(candidate.skills) \subseteq Range(job_spec.must_have_hard_skills)
    /\ sub_scores.skills = 46

\* the evidence items recorded so far for the experience field
ExperienceEvidence == SelectSeq(evidence, LAMBDA e : e.field = "experience")

\* C17: right after the experience scorer ran, with the seniority part adding
\* -10, 0 or 20: if years_min is present and the candidate's years are at least
\* years_min (equality included) the years part is 50 + 30 and exactly one
\* evidence item has field experience; if they are fewer it is 50 - 20 and there
\* is no such item; if years_min is absent it is 50, there is no such item and
\* experience_requirements.years_min is the entry of missing_data.
C17_YearsPart ==
    pc = "culture" =>
        LET has_min == /\ Has(job_spec, "experience_requirements")
                       /\ Has(job_spec.experience_requirements, "years_min")
            years_min == job_spec.experience_requirements.years_min
            years == candidate.years_experience
            plain == job_spec.seniority = "unspecified"
            part == IF has_min /\ years >= years_min THEN 80
                    ELSE IF has_min THEN 30
                    ELSE 50
        IN /\ sub_scores.experience - part \in {0 - 10, 0, 20}
           /\ plain => sub_scores.experience = part
           /\ Len(ExperienceEvidence) = (IF has_min /\ years >= years_min THEN 1 ELSE 0)
           /\ missing_data = (IF has_min THEN <<>>
                              ELSE <<"experience_requirements.years_min">>)

C17_Witness ==
    /\ pc = "culture"
    /\ Has(job_spec, "experience_requirements")
    /\ Has(job_spec.experience_requirements, "years_min")
    /\ candidate.years_experience = job_spec.experience_requirements.years_min
    /\ candidate.years_experience > 0
    /\ job_spec.seniority = "unspecified"
    /\ sub_scores.experience = 80
    /\ Len(ExperienceEvidence) = 1

\* what the years part contributes: 80, 30 or 50 (C17)
YearsPart ==
    LET has_min == /\ Has(job_spec, "experience_requirements")
                   /\ Has(job_spec.experience_requirements, "years_min")
    IN IF has_min /\ candidate.years_experience >= job_spec.experience_requirements.years_min
       THEN 80
       ELSE IF has_min THEN 30 ELSE 50

\* the job's seniority in lower case is one of the four levels
SeniorityLevelKnown == Lower(job_spec.seniority) \in {"junior", "mid", "senior", "lead"}

\* the candidate's current_title, in lower case, contains a keyword of the job's level
TitleMatchesLevel ==
    LET level == Lower(job_spec.seniority)
        title == Lower(Get(candidate, "current_title", ""))
        keywords == IF level = "junior" THEN {"junior", "graduate", "entry"}
                    ELSE IF level = "mid" THEN {"mid", "intermediate", "engineer", "developer"}
                    ELSE IF level = "senior" THEN {"senior", "sr", "lead"}
                    ELSE IF level = "lead" THEN {"lead", "principal", "staff", "architect"}
                    ELSE {}
    IN \E k \in keywords : Contains(title, k)

\* C18 as stated: a keyword match for a known level adds 20; every other
\* seniority value that is not 'unspecified', a value outside the four levels
\* included, subtracts 10; 'unspecified' changes nothing.
C18_SeniorityUnmatchedSubtracts ==
    pc = "culture" =>
        sub_scores.experience - YearsPart =
            (IF SeniorityLevelKnown /\ TitleMatchesLevel THEN 20
             ELSE IF job_spec.seniority # "unspecified" THEN 0 - 10
             ELSE 0)

\* C18: when the job's seniority is, case-insensitively, one of junior, mid,
\* senior, lead, a level keyword in current_title adds 20 and no such keyword (a
\* missing title included) subtracts 10; 'unspecified' and any value outside the
\* four levels change nothing.
C18_SeniorityPart ==
    pc = "culture" =>
        sub_scores.experience - YearsPart =
            (IF SeniorityLevelKnown /\ TitleMatchesLevel THEN 20
             ELSE IF SeniorityLevelKnown THEN 0 - 10
             ELSE 0)

C18_Witness ==
    /\ pc = "culture"
    /\ job_spec.seniority # "unspecified"
    /\ ~SeniorityLevelKnown
    /\ Has(candidate, "current_title")
    /\ YearsPart = 50
    /\ sub_scores.experience = 50

\* the culture scorer took the fallback: no company, or a company without culture_fit
NoExplicitCultureFit == company = None \/ ~Has(company, "culture_fit")

\* C19: right after the culture scorer ran without an explicit culture_fit,
\* company_profile.culture_fit is in missing_data, also when the company has
\* culture_values.
C19_FallbackRecordsMissing ==
    (pc = "domain" /\ NoExplicitCultureFit) =>
        "company_profile.culture_fit" \in Range(missing_data)

\* C20: the culture subscore of a returned ScoreCard is the culture_fit.score of
\* the supplied company, 0 and 100 included, and 60 when no company or a company
\* without culture_fit is supplied, whatever its culture_values.
C20_CultureScore ==
    (pc = "done" /\ IsScoreCard(result)) =>
        LET supplied == SuppliedCompany(match_data)
        IN result.sub_scores.culture =
               (IF supplied # None /\ Has(supplied, "culture_fit")
                THEN supplied.culture_fit.score
                ELSE 60)

C20_Witness ==
    /\ pc = "done"
    /\ IsScoreCard(result)
    /\ Has(match_data, "company_profile")
    /\ Has(match_data.company_profile, "culture_fit")
    /\ match_data.company_profile.culture_fit.score = 0
    /\ result.sub_scores.culture = 0

\* the evidence items recorded so far for the domain field
DomainEvidence == SelectSeq(evidence, LAMBDA e : e.field = "domain")

\* the candidate's industry_experience entries in lower case
IndustriesLower == {Lower(x) : x \in Range(candidate.industry_experience)}

\* the job has an industry and it is, in lower case, one of the candidate's
IndustryExact ==
    /\ Has(job_spec, "industry") /\ job_spec.industry # ""
    /\ Lower(job_spec.industry) \in IndustriesLower

\* the job's industry contains one of the candidate's, or is contained in one
IndustrySubstring ==
    /\ Has(job_spec, "industry") /\ job_spec.industry # ""
    /\ \E x \in IndustriesLower :
           Contains(x, Lower(job_spec.industry)) \/ Contains(Lower(job_spec.industry), x)

\* the job's domain_knowledge and the candidate's industries share an entry
KnowledgeOverlap ==
    {Lower(x) : x \in Range(job_spec.domain_knowledge)} \cap IndustriesLower # {}

\* C21: right after the domain scorer ran, the domain subscore is 50, plus 40 and
\* one evidence item for an exact case-insensitive industry match, or else plus
\* 20 for a substring relation in either direction, plus 10 for a
\* domain_knowledge overlap; it is one of 50, 60, 70, 80, 90, 100.
C21_DomainScore ==
    pc = "logistics" =>
        /\ sub_scores.domain =
               50 + (IF IndustryExact THEN 40 ELSE IF IndustrySubstring THEN 20 ELSE 0)
                  + (IF KnowledgeOverlap THEN 10 ELSE 0)
        /\ Len(DomainEvidence) = (IF IndustryExact THEN 1 ELSE 0)
        /\ sub_scores.domain \in {50, 60, 70, 80, 90, 100}

C21_Witness ==
    /\ pc = "logistics"
    /\ ~IndustryExact
    /\ IndustrySubstring
    /\ \E x \in IndustriesLower : x # Lower(job_spec.industry)
                                   /\ Contains(Lower(job_spec.industry), x)
    /\ KnowledgeOverlap
    /\ sub_scores.domain = 80

\* the lower-case location types, a missing type being the empty text
JobLocationType == Lower(Get(job_spec.location, "type", ""))

CandidateLocationType == Lower(Get(candidate.locations, "type", ""))

\* what the location part adds: 20, 10, -15, or 0 when a location is absent
LocationPart ==
    IF ~(Has(job_spec, "location") /\ Has(candidate, "locations")) THEN 0
    ELSE IF JobLocationType = CandidateLocationType \/ CandidateLocationType = "remote"
    THEN 20
    ELSE IF JobLocationType = "hybrid" /\ CandidateLocationType = "onsite" THEN 10
    ELSE 0 - 15

BothSalaryRecords == Has(job_spec, "salary_range") /\ Has(candidate, "salary_expectation")

BothSalaryFigures ==
    /\ BothSalaryRecords
    /\ Has(job_spec.salary_range, "max")
    /\ Has(candidate.salary_expectation, "min")

\* what the salary part adds: 10, -20, or 0 when a figure is absent
SalaryPart ==
    IF ~BothSalaryFigures THEN 0
    ELSE IF job_spec.salary_range.max >= candidate.salary_expectation.min THEN 10
    ELSE 0 - 20

\* the missing_data entries that the logistics scorer can record
SalaryMissing ==
    SelectSeq(missing_data,
              LAMBDA x : x \in {"complete_salary_information",
                                "salary_range_or_expectation"})

\* C22: right after the logistics scorer ran, the logistics subscore is 70, plus
\* (both locations present) 20 for equal types or a remote candidate, else 10 for
\* a hybrid job with an onsite candidate, else -15, plus (both salary figures
\* present) 10 if the job's max is at least the candidate's min and -20 if not;
\* complete_salary_information is recorded when both salary records exist but a
\* figure is absent, salary_range_or_expectation when a record is absent.
C22_LogisticsScore ==
    pc = "assemble" =>
        /\ sub_scores.logistics = 70 + LocationPart + SalaryPart
        /\ SalaryMissing = (IF BothSalaryFigures THEN <<>>
                            ELSE IF BothSalaryRecords
                            THEN <<"complete_salary_information">>
                            ELSE <<"salary_range_or_expectation">>)

C22_Witness ==
    /\ pc = "assemble"
    /\ Has(job_spec, "location") /\ Has(candidate, "locations")
    /\ JobLocationType = "hybrid"
    /\ CandidateLocationType = "remote"
    /\ BothSalaryRecords
    /\ ~BothSalaryFigures
    /\ sub_scores.logistics = 90

\* the sum of subscore times weight under the table that the culture weight selects
WeightedSum ==
    LET w == IF culture_weight = 10
             THEN [skills |-> 45, experience |-> 20, culture |-> 10, domain |-> 15,
                   logistics |-> 10]
             ELSE [skills |-> 45, experience |-> 20, culture |-> 20, domain |-> 10,
                   logistics |-> 5]
    IN sub_scores.skills * w.skills + sub_scores.experience * w.experience
       + sub_scores.culture * w.culture + sub_scores.domain * w.domain
       + sub_scores.logistics * w.logistics

\* C23: the overall score is the greatest integer not above the weighted sum
\* divided by 100; for subscores in 0..100 it is in 0..100, and it is 100 only
\* when every subscore is 100.
C23_OverallFloor ==
    pc = "weighed" =>
        /\ total_score * 100 <= WeightedSum
        /\ WeightedSum < (total_score + 1) * 100
        /\ total_score \in 0..100
        /\ total_score = 100 => \A d \in Range(Dimensions) : sub_scores[d] = 100

C23_Witness ==
    /\ pc = "weighed"
    /\ total_score = 99
    /\ sub_scores.logistics = 99
    /\ \A d \in Range(Dimensions) \ {"logistics"} : sub_scores[d] = 100

\* text begins with the label of the decision and the score, then names a
\* dimension of greatest score, then a dimension of least score exactly when that
\* score is below 60
JustificationHead(text, overall, decision, scores) ==
    LET label == IF decision = "proceed" THEN "Strong"
                 ELSE IF decision = "maybe" THEN "Moderate"
                 ELSE "Poor"
        highest == CHOOSE v \in {scores[d] : d \in Range(Dimensions)} :
                       \A d \in Range(Dimensions) : scores[d] <= v
        lowest == CHOOSE v \in {scores[d] : d \in Range(Dimensions)} :
                      \A d \in Range(Dimensions) : scores[d] >= v
        names_weakest == Len(text) >= 9 /\ text[7] = "Weakest:"
    IN /\ Len(text) >= 6
       /\ SubSeq(text, 1, 3) = <<label, "match", "(" \o ToString(overall) \o "/100).">>
       /\ (label = "Strong") <=> (overall >= 75)
       /\ (label = "Poor") <=> (overall < 50)
       /\ text[4] = "Strongest:"
       /\ text[5] \in Range(Dimensions)
       /\ scores[text[5]] = highest
       /\ text[6] = "(" \o ToString(highest) \o "/100)."
       /\ names_weakest <=> (lowest < 60)
       /\ names_weakest =>
              /\ text[8] \in Range(Dimensions)
              /\ scores[text[8]] = lowest
              /\ text[9] = "(" \o ToString(lowest) \o "/100)."

\* C24: the justification of a returned ScoreCard, and of a direct call, begins
\* with the label of the decision (Strong for proceed, from 75; Moderate for
\* maybe; Poor for reject) and the score, then names the highest-scoring
\* dimension, and names the lowest-scoring one exactly when its score is below 60.
C24_JustificationHead ==
    /\ ReturnedScoreCard =>
           JustificationHead(result.justification, result.overall_score,
                             result.decision, result.sub_scores)
    /\ pc = "justified" =>
           JustificationHead(justification, just_args.overall_score,
                             DecisionBand(just_args.overall_score), just_args.scores)

C24_Witness ==
    /\ pc = "justified"
    /\ just_args.overall_score = 75
    /\ justification[1] = "Strong"
    /\ justification[7] = "Weakest:"
    /\ justification[8] = "skills"
    /\ just_args.scores.skills = just_args.scores.logistics

\* the number of words of the head of a justification: label, score, strongest
\* dimension, and the weakest one if it is named
HeadLength(scores) ==
    IF \E d \in Range(Dimensions) : scores[d] < 60 THEN 9 ELSE 6

\* "Key factors:" and the first two of the reasons rs, if there is a reason
QuotedReasons(rs) ==
    IF rs = <<>> THEN <<>>
    ELSE <<"Key", "factors:">> \o Suffix(Join(SubSeq(rs, 1, Min2(2, Len(rs))), ";"), ".")

\* the note on missing data, if md has more than one entry
MissingNote(md) ==
    IF Len(md) > 1
    THEN <<"Limited", "by", "missing", "data", "(" \o ToString(Len(md)), "items).">>
    ELSE <<>>

\* what follows the head in the justification of the returned ScoreCard
JustificationTail ==
    SubSeq(result.justification, HeadLength(result.sub_scores) + 1,
           Len(result.justification))

\* C25 as stated: after the head, the justification of every returned ScoreCard
\* consists of the first two reasons of ScoreCard.reasons and, exactly when
\* ScoreCard.missing_data has more than one entry, the note with its length.
C25_ReasonsAndNoteAlways ==
    ReturnedScoreCard =>
        JustificationTail = QuotedReasons(result.reasons) \o MissingNote(result.missing_data)

\* C25: when head, quoted reasons and note together have at most 100 words, the
\* justification of a returned ScoreCard consists, after the head, of the first
\* two reasons of ScoreCard.reasons and, exactly when ScoreCard.missing_data has
\* more than one entry, the note with its length; when they have more, the text
\* is cut to 97 words and the note is lost.
C25_ReasonsAndNote ==
    ReturnedScoreCard =>
        LET expected == QuotedReasons(result.reasons) \o MissingNote(result.missing_data)
            words == HeadLength(result.sub_scores) + Len(expected)
        IN /\ words <= 100 => JustificationTail = expected
           /\ words > 100 =>
                  /\ Len(result.justification) = 97
                  /\ "items)." \notin Range(result.justification)

C25_Witness ==
    /\ ReturnedScoreCard
    /\ Len(result.reasons) >= 3
    /\ Len(result.missing_data) = 2
    /\ Len(result.justification) < 97
    /\ result.justification[Len(result.justification)] = "items)."
    /\ result.justification[Len(result.justification) - 1] = "(2"

\* text is the assembled words, or their first 97 with an ellipsis closing the
\* last one if there are more than 100, and starts with label and score
CutTo97(text, assembled, overall) ==
    /\ text = (IF Len(assembled) > 100
               THEN [i \in 1..97 |-> IF i = 97 THEN assembled[i] \o "..."
                                     ELSE assembled[i]]
               ELSE assembled)
    /\ Len(text) >= 3
    /\ text[1] \in {"Strong", "Moderate", "Poor"}
    /\ text[2] = "match"
    /\ text[3] = "(" \o ToString(overall) \o "/100)."

\* C26: the justification of a returned ScoreCard, and of a direct call, is the
\* assembled text if that has at most 100 words and otherwise its first 97 words
\* followed by an ellipsis; either way it starts with the label and the N/100
\* score in full.
C26_Truncation ==
    /\ ReturnedScoreCard =>
           CutTo97(result.justification,
                   Assembled(result.overall_score, result.sub_scores, Take(reasons, 3),
                             missing_data),
                   result.overall_score)
    /\ pc = "justified" =>
           CutTo97(justification,
                   Assembled(just_args.overall_score, just_args.scores,
                             just_args.top_reasons, just_args.missing_data),
                   just_args.overall_score)

C26_Witness ==
    /\ pc = "justified"
    /\ Len(Assembled(just_args.overall_score, just_args.scores, just_args.top_reasons,
                     just_args.missing_data)) > 100
    /\ Len(justification) = 97
    /\ justification[97] # Assembled(just_args.overall_score, just_args.scores,
                                     just_args.top_reasons, just_args.missing_data)[97]
    /\ justification[3] = "(49/100)."

\* the synonym table
SynonymOf(t) ==
    IF t = "postgresql" THEN "postgres"
    ELSE IF t = "javascript" THEN "js"
    ELSE IF t = "typescript" THEN "ts"
    ELSE IF t = "node.js" THEN "nodejs"
    ELSE IF t = "react.js" THEN "react"
    ELSE IF t = "vue.js" THEN "vue"
    ELSE t

\* entry i of tech_list trimmed, in lower case, replaced by its synonym
Canonical(i) == SynonymOf(Lower(Strip(tech_list[i])))

\* the positions of tech_list whose entry is not empty and did not occur before
FirstOccurrences ==
    {i \in 1..Len(tech_list) :
        Canonical(i) # "" /\ \A j \in 1..(i - 1) : Canonical(j) # Canonical(i)}

\* C27: the list the normalizer returns holds, in the order of their first
\* occurrence and once each, the non-empty entries of its argument trimmed,
\* lower-cased and replaced by their synonym; an empty argument gives an empty
\* list; normalizing the returned list returns it unchanged.
C27_Normalizer ==
    /\ pc \in {"normalized", "renormalized"} =>
           /\ Len(normalized) = Cardinality(FirstOccurrences)
           /\ \A k \in 1..Len(normalized) :
                  \E i \in FirstOccurrences :
                      /\ normalized[k] = Canonical(i)
                      /\ Cardinality({j \in FirstOccurrences : j < i}) = k - 1
           /\ tech_list = <<>> => normalized = <<>>
    /\ pc = "renormalized" => normalized = tech_list

C27_Witness ==
    /\ pc = "renormalized"
    /\ tech_list = <<"js", "postgres", "python">>
    /\ normalized = <<"js", "postgres", "python">>

\* the candidate holds none of the job's must-have skills
NoMustHaveHeld ==
    Range(normalize_tech(candidate.skills))
        \cap Range(normalize_tech(job_spec.must_have_hard_skills)) = {}

\* C28: when the candidate holds none of the job's must-have skills, an empty
\* must-have list included, the skills subscore is at most 30, the overall score
\* at most 68, and the decision is not proceed.
C28_NoMustHaveNoProceed ==
    (ReturnedScoreCard /\ NoMustHaveHeld) =>
        /\ result.sub_scores.skills <= 30
        /\ result.overall_score <= 68
        /\ result.decision # "proceed"

C28_Witness ==
    /\ ReturnedScoreCard
    /\ NoMustHaveHeld
    /\ job_spec.must_have_hard_skills = <<>>
    /\ result.sub_scores = [skills |-> 30, experience |-> 100, culture |-> 100,
                            domain |-> 100, logistics |-> 100]
    /\ result.overall_score = 68

\* C29: in every returned ScoreCard the experience, domain and logistics
\* subscores are the unclamped sums, which lie in 20..100, 50..100 and 35..100;
\* the overall score is at least 10, and at least 21 under the reduced-culture
\* weights.
C29_ClampsInactive ==
    ReturnedScoreCard =>
        /\ ExperienceOutcome(job_spec, candidate).raw \in 20..100
        /\ DomainOutcome(job_spec, candidate).raw \in 50..100
        /\ LogisticsOutcome(job_spec, candidate).raw \in 35..100
        /\ result.sub_scores.experience = ExperienceOutcome(job_spec, candidate).raw
        /\ result.sub_scores.domain = DomainOutcome(job_spec, candidate).raw
        /\ result.sub_scores.logistics = LogisticsOutcome(job_spec, candidate).raw
        /\ result.sub_scores.experience \in 20..100
        /\ result.sub_scores.domain \in 50..100
        /\ result.sub_scores.logistics \in 35..100
        /\ result.overall_score >= 10
        /\ NoExplicitCultureFit => result.overall_score >= 21

C29_Witness ==
    /\ ReturnedScoreCard
    /\ result.sub_scores = [skills |-> 0, experience |-> 20, culture |-> 0,
                            domain |-> 50, logistics |-> 35]
    /\ result.overall_score = 10

\* the number of evidence items recorded for one field
EvidenceFor(field) == Cardinality({i \in DOMAIN evidence : evidence[i].field = field})

\* the salary reasons of _calculate_logistics_score
SalaryReasons ==
    {<<"salary", "expectations", "aligned">>, <<"salary", "expectations", "misaligned">>}

\* C30: in every returned ScoreCard the scorers have produced at most 4 evidence
\* items, at most one each for skills, experience, culture and domain and none
\* for logistics, and at most 3 missing_data entries, so evidence[:6] keeps all
\* of them; they have produced at most 9 reasons, and when they produced 9 the
\* returned reasons are the first 8 and the one left out is the salary reason
\* of the logistics scorer.
C30_ListSizes ==
    ReturnedScoreCard =>
        /\ Len(evidence) <= 4
        /\ \A f \in {"skills", "experience", "culture", "domain"} : EvidenceFor(f) <= 1
        /\ EvidenceFor("logistics") = 0
        /\ \A i \in DOMAIN evidence :
              evidence[i].field \in {"skills", "experience", "culture", "domain"}
        /\ Len(missing_data) <= 3
        /\ result.evidence = evidence
        /\ result.missing_data = missing_data
        /\ Len(reasons) <= 9
        /\ Len(reasons) = 9 =>
              /\ result.reasons = SubSeq(reasons, 1, 8)
              /\ reasons[9] \in SalaryReasons
              /\ \A i \in 1..8 : reasons[i] \notin SalaryReasons

C30_Witness ==
    /\ ReturnedScoreCard
    /\ Len(reasons) = 9
    /\ Len(evidence) = 4
    /\ Len(result.evidence) = 4
    /\ reasons[9] \in SalaryReasons
    /\ reasons[9] \notin Range(result.reasons)

====
